---- MODULE Spec2Model ----
(***************************************************************************)
(* A model of the LED lyrics player (js/player.js, class LEDLyricsPlayer): *)
(* the LRC parser, the lyric cursor and the playlist (catalog) operations. *)
(*                                                                         *)
(* Conventions.                                                            *)
(*  - A JavaScript string is a sequence of one-character strings, so that  *)
(*    the regular expressions and the string methods of the source are     *)
(*    computed character by character.                                     *)
(*  - A time is an integer number of centiseconds (the source computes     *)
(*    minutes*60 + seconds + centiseconds/100 in seconds; two such values  *)
(*    are equal, or ordered, exactly as their centisecond counts are).     *)
(*  - Indices keep the source's 0-based values (currentSongIndex = -1 for  *)
(*    "none"); the i-th element of a JavaScript array a is a[i + 1] here.   *)
(*  - The browser's part of playback is state too: the animation frames    *)
(*    that are pending, the timers that are pending, and for every audio   *)
(*    element whether it is loaded, whether it plays and its position.     *)
(***************************************************************************)
EXTENDS Integers, Sequences, FiniteSets, TLC

VARIABLES
    songs,                 \* this.songs: the catalog, a sequence of tracks
    currentSongIndex,      \* this.currentSongIndex
    currentLyricIndex,     \* this.currentLyricIndex
    currentTime,           \* this.currentTime (centiseconds)
    lastLyricSearchIndex,  \* this.lastLyricSearchIndex
    lastLyricSearchTime,   \* this.lastLyricSearchTime (centiseconds)
    isPlaying,             \* this.isPlaying
    audioMode,             \* this.audioMode
    audioElement,          \* this.audioElement: which audio element it refers to
    pausedTime,            \* this.pausedTime
    animationId,           \* this.animationId refers to a frame that is still pending
    frames,                \* the pending animation frames whose callback is animate()
    elapsed,               \* performance.now() - this.startTime (centiseconds)
    playbackSpeed,         \* this.playbackSpeed
    timers,                \* the pending timers that call play() or sortPlaylist()
    readers,               \* the files whose FileReader has not fired yet
    playMode,              \* this.playMode
    playHistory,           \* this.playHistory: the indices played in random mode
    modeSong,              \* SpecModes: the track the mode functions are called with
    modeResult,            \* SpecModes: the function called and what it returned
    callArgs,              \* the arguments a function called on its own is given
    callResult,            \* the function called on its own and what it returned
    scanWork,              \* history: the queries of a forward run and their loop iterations
    lrcContent,            \* SpecParse: the argument parseLrc is called with
    parseResult,           \* SpecParse: what the call did (a timeline, or a throw)
    lastOp                 \* history: the handler that ran last, [op, a, b]

vars == <<songs, currentSongIndex, currentLyricIndex, currentTime,
          lastLyricSearchIndex, lastLyricSearchTime, isPlaying, audioMode, audioElement,
          pausedTime, animationId, frames, elapsed, playbackSpeed, timers, readers,
          playMode, playHistory, lrcContent, parseResult, modeSong, modeResult, callArgs, callResult,
          scanWork, lastOp>>

playerVars == <<songs, currentSongIndex, currentLyricIndex, currentTime,
                lastLyricSearchIndex, lastLyricSearchTime, isPlaying, audioMode,
                audioElement, pausedTime, animationId, frames, elapsed,
                playbackSpeed, timers, readers, playMode, playHistory>>

parserVars == <<lrcContent, parseResult>>

modeVars == <<modeSong, modeResult, callArgs, callResult, scanWork>>

(***************************************************************************)
(* Bounds of the model.                                                    *)
(***************************************************************************)
MaxTime == 3       \* seek targets and line times of the cursor model: 0..MaxTime
MaxLines == 3      \* lines of a timeline in the cursor model
MaxTextLines == 3  \* lines of an LRC text in the parser model
MaxSongs == 3      \* tracks in the catalog

Min(a, b) == IF a <= b THEN a ELSE b

(***************************************************************************)
(* LyricCursor: updateLyricsDisplay.                                       *)
(***************************************************************************)

\* The scan start with the backward-seek reset left out.
ScanStartNoReset(t, lst, lsi) == lsi

\* Lines 2101-2104: a time before the last observed one resets the scan start.
ScanStart(t, lst, lsi) == IF t < lst THEN 0 ELSE lsi

\* The scan with the look at the next line left out: the first line reached.
ScanFromFirstReached(lyrics, t, i) ==
    IF i >= Len(lyrics) THEN -1
    ELSE IF t >= lyrics[i + 1].time THEN i
    ELSE -1

\* Lines 2112-2124: the for loop from index i; -1 when it ends without a line.
RECURSIVE ScanFrom(_, _, _)
ScanFrom(lyrics, t, i) ==
    IF i >= Len(lyrics) THEN -1
    ELSE IF t >= lyrics[i + 1].time
         THEN IF i = Len(lyrics) - 1 \/ t < lyrics[i + 2].time
              THEN i
              ELSE ScanFrom(lyrics, t, i + 1)
         ELSE -1

\* Lines 2108-2125: activeIndex for the time t and the scan start.
ActiveIndex(lyrics, t, start) ==
    IF t >= lyrics[1].time THEN ScanFrom(lyrics, t, start) ELSE -1

\* Lines 2112-2124: the number of times the body of the for loop runs from
\* index i.
RECURSIVE ScanIterations(_, _, _)
ScanIterations(lyrics, t, i) ==
    IF i >= Len(lyrics) THEN 0
    ELSE IF t >= lyrics[i + 1].time
         THEN IF i = Len(lyrics) - 1 \/ t < lyrics[i + 2].time
              THEN 1
              ELSE 1 + ScanIterations(lyrics, t, i + 1)
         ELSE 1

\* Lines 2090-2125: the number of loop iterations of updateLyricsDisplay on the
\* player state p.
scanIterations(p) ==
    IF p.currentSongIndex < 0 THEN 0
    ELSE LET lyrics == p.songs[p.currentSongIndex + 1].lyrics IN
         IF Len(lyrics) = 0 THEN 0
         ELSE IF p.currentTime < lyrics[1].time THEN 0
         ELSE ScanIterations(lyrics, p.currentTime,
                             ScanStart(p.currentTime, p.lastLyricSearchTime,
                                       p.lastLyricSearchIndex))

\* updateLyricsDisplay without line 2118: the scan start is never moved.
updateLyricsDisplayNoMemo(p) ==
    IF p.currentSongIndex < 0 THEN p
    ELSE LET lyrics == p.songs[p.currentSongIndex + 1].lyrics IN
         IF Len(lyrics) = 0 THEN p
         ELSE LET start == ScanStart(p.currentTime, p.lastLyricSearchTime,
                                     p.lastLyricSearchIndex)
                  active == ActiveIndex(lyrics, p.currentTime, start)
              IN  [p EXCEPT !.currentLyricIndex = active,
                            !.lastLyricSearchIndex = start,
                            !.lastLyricSearchTime = p.currentTime]

\* Lines 2090-2140: updateLyricsDisplay on the player state p (p.currentTime is
\* the time the caller has just set).
updateLyricsDisplay(p) ==
    IF p.currentSongIndex < 0 THEN p
    ELSE LET lyrics == p.songs[p.currentSongIndex + 1].lyrics IN
         IF Len(lyrics) = 0 THEN p
         ELSE LET start == ScanStart(p.currentTime, p.lastLyricSearchTime,
                                     p.lastLyricSearchIndex)
                  active == ActiveIndex(lyrics, p.currentTime, start)
              IN  [p EXCEPT !.currentLyricIndex = active,
                            !.lastLyricSearchIndex = IF active >= 0 THEN active ELSE start,
                            !.lastLyricSearchTime = p.currentTime]

(***************************************************************************)
(* A track and its playback modes.                                         *)
(*                                                                         *)
(* A track is a record; a field the JavaScript object does not have is a   *)
(* field the record does not have. song.audioFile is TRUE for a File. An   *)
(* audio element is a record: whether it exists (FALSE stands for null),   *)
(* whether it has loaded enough to play (readyState >= 2), whether it      *)
(* plays, whether a canplay listener of play() waits on it, and its        *)
(* position (currentTime).                                                 *)
(***************************************************************************)
NullAudio ==
    [exists |-> FALSE, ready |-> FALSE, playing |-> FALSE, waiting |-> FALSE, pos |-> 0]

\* new Audio() with its src set (lines 1341-1347).
NewAudio ==
    [exists |-> TRUE, ready |-> FALSE, playing |-> FALSE, waiting |-> FALSE, pos |-> 0]

\* song.audioElement, null when the track has no such field.
AudioElementOf(song) ==
    IF "audioElement" \in DOMAIN song THEN song.audioElement ELSE NullAudio

\* song.audioElement is truthy.
HasAudioElement(song) == AudioElementOf(song).exists

\* song.audioFile is truthy.
HasAudioFile(song) == "audioFile" \in DOMAIN song /\ song.audioFile

\* song.lyrics && song.lyrics.length > 0.
HasLyrics(song) == "lyrics" \in DOMAIN song /\ Len(song.lyrics) > 0

\* song.userMode || 'auto'.
UserMode(song) == IF "userMode" \in DOMAIN song THEN song.userMode ELSE "auto"

\* The track with the field f set to v (added when the track has no such field).
WithField(song, f, v) ==
    [g \in DOMAIN song \cup {f} |-> IF g = f THEN v ELSE song[g]]

\* array.includes(x).
Includes(array, x) == \E i \in 1..Len(array) : array[i] = x

\* Lines 2546-2563: getAvailableModes(song), the modes in the order pushed.
getAvailableModes(song) ==
    (IF HasLyrics(song) THEN <<"lyrics">> ELSE <<>>)
        \o (IF HasAudioFile(song) /\ HasAudioElement(song)
            THEN <<"audio">> \o (IF HasLyrics(song) THEN <<"sync">> ELSE <<>>)
            ELSE <<>>)

\* The automatic mode with the audio file looked at before the lyrics.
getAutoDetectedModeAudioFirst(song) ==
    IF HasAudioFile(song) THEN "audio"
    ELSE IF HasLyrics(song) THEN "sync"
    ELSE "lyrics"

\* Lines 2584-2588: getAutoDetectedMode(song).
getAutoDetectedMode(song) ==
    IF HasAudioFile(song) /\ HasLyrics(song) THEN "sync"
    ELSE IF HasAudioFile(song) THEN "audio"
    ELSE "lyrics"

\* Lines 2566-2581: getEffectiveMode(song).
getEffectiveMode(song) ==
    IF UserMode(song) = "auto" THEN getAutoDetectedMode(song)
    ELSE IF Includes(getAvailableModes(song), UserMode(song)) THEN UserMode(song)
    ELSE getAutoDetectedMode(song)

\* Lines 2590-2593: getSongMode(song).
getSongMode(song) == getEffectiveMode(song)

(***************************************************************************)
(* The player state as one record, and its assignment to the variables.    *)
(***************************************************************************)
Player ==
    [songs |-> songs, currentSongIndex |-> currentSongIndex,
     currentLyricIndex |-> currentLyricIndex, currentTime |-> currentTime,
     lastLyricSearchIndex |-> lastLyricSearchIndex,
     lastLyricSearchTime |-> lastLyricSearchTime,
     isPlaying |-> isPlaying, audioMode |-> audioMode, audioElement |-> audioElement,
     pausedTime |-> pausedTime, animationId |-> animationId, frames |-> frames,
     elapsed |-> elapsed, playbackSpeed |-> playbackSpeed, timers |-> timers,
     readers |-> readers,
     playMode |-> playMode, playHistory |-> playHistory]

SetPlayer(p) ==
    /\ songs' = p.songs
    /\ currentSongIndex' = p.currentSongIndex
    /\ currentLyricIndex' = p.currentLyricIndex
    /\ currentTime' = p.currentTime
    /\ lastLyricSearchIndex' = p.lastLyricSearchIndex
    /\ lastLyricSearchTime' = p.lastLyricSearchTime
    /\ isPlaying' = p.isPlaying
    /\ audioMode' = p.audioMode
    /\ audioElement' = p.audioElement
    /\ pausedTime' = p.pausedTime
    /\ animationId' = p.animationId
    /\ frames' = p.frames
    /\ elapsed' = p.elapsed
    /\ playbackSpeed' = p.playbackSpeed
    /\ timers' = p.timers
    /\ readers' = p.readers
    /\ playMode' = p.playMode
    /\ playHistory' = p.playHistory

\* The variables hold the player state p.
PlayerIs(p) ==
    /\ songs = p.songs
    /\ currentSongIndex = p.currentSongIndex
    /\ currentLyricIndex = p.currentLyricIndex
    /\ currentTime = p.currentTime
    /\ lastLyricSearchIndex = p.lastLyricSearchIndex
    /\ lastLyricSearchTime = p.lastLyricSearchTime
    /\ isPlaying = p.isPlaying
    /\ audioMode = p.audioMode
    /\ audioElement = p.audioElement
    /\ pausedTime = p.pausedTime
    /\ animationId = p.animationId
    /\ frames = p.frames
    /\ elapsed = p.elapsed
    /\ playbackSpeed = p.playbackSpeed
    /\ timers = p.timers
    /\ readers = p.readers
    /\ playMode = p.playMode
    /\ playHistory = p.playHistory

\* this.audioElement: null, the element of the track of a name, or an element
\* that has been released (its src emptied, or its track dropped).
NoElement == [kind |-> "null", owner |-> <<>>]
ReleasedElement == [kind |-> "released", owner |-> <<>>]
ElementOf(name) == [kind |-> "element", owner |-> name]

\* The pending timers: the number of those that call play() (lines 772-775,
\* 1126, 1410-1413, 1451-1454), and those of applyModeChange (lines 2675-2678),
\* each with the time it captured and, as history, the name of the track the
\* mode change was applied to, and the number of those of loadLrcFiles that
\* call sortPlaylist() (lines 826-831), and the next indices that the timers of
\* onSongEnded hold (lines 1426-1440), in the order the timers were set.
NoTimers == [play |-> 0, resume |-> {}, sort |-> 0, ended |-> <<>>]

\* Lines 215-245: the fields after the constructor; no frame and no timer is
\* pending.
ConstructedPlayer ==
    [songs |-> <<>>, currentSongIndex |-> -1, currentLyricIndex |-> -1,
     currentTime |-> 0, lastLyricSearchIndex |-> 0, lastLyricSearchTime |-> 0,
     isPlaying |-> FALSE, audioMode |-> FALSE, audioElement |-> NoElement,
     pausedTime |-> 0, animationId |-> FALSE, frames |-> 0, elapsed |-> 0,
     playbackSpeed |-> 1, timers |-> NoTimers, readers |-> {}, playMode |-> "loop", playHistory |-> <<>>]

(***************************************************************************)
(* Playback: audio elements, the animation loop, play and pause.           *)
(***************************************************************************)

\* The track at currentSongIndex exists (this.songs[this.currentSongIndex] is
\* not undefined).
HasCurrentSong(p) == p.currentSongIndex >= 0 /\ p.currentSongIndex < Len(p.songs)

\* The position (1-based) of the track whose element this.audioElement is; 0
\* when this.audioElement is null or a released element.
GlobalOwner(p) ==
    IF /\ p.audioElement.kind = "element"
       /\ \E k \in 1..Len(p.songs) : p.songs[k].name = p.audioElement.owner
    THEN CHOOSE k \in 1..Len(p.songs) : p.songs[k].name = p.audioElement.owner
    ELSE 0

\* The element this.audioElement refers to; a released element has no src: it
\* is not loaded, does not play and is at position 0.
GlobalAudio(p) ==
    IF GlobalOwner(p) > 0 THEN AudioElementOf(p.songs[GlobalOwner(p)]) ELSE NewAudio

\* The player with the element of this.audioElement replaced by e (nothing to
\* keep for null and for a released element).
WithGlobalAudio(p, e) ==
    IF GlobalOwner(p) > 0
    THEN [p EXCEPT !.songs[GlobalOwner(p)] =
                       WithField(p.songs[GlobalOwner(p)], "audioElement", e)]
    ELSE p

\* Lines 1308-1317 and 1465-1473: the element of the track at position k
\* (1-based) is paused, its src emptied and the track's reference set to null;
\* a this.audioElement that refers to it now refers to a released element.
ReleaseAudio(p, k) ==
    IF ~HasAudioElement(p.songs[k]) THEN p
    ELSE [p EXCEPT !.songs[k] = WithField(p.songs[k], "audioElement", NullAudio),
                   !.audioElement =
                       IF p.audioElement = ElementOf(p.songs[k].name)
                       THEN ReleasedElement ELSE p.audioElement]

\* The elapsed time of the free-running clock is read only by animate(), and
\* every frame is requested after startPlayback has set startTime: without a
\* pending frame its value is never read, and is kept at 0.
ClockKept(p) == IF p.frames = 0 THEN [p EXCEPT !.elapsed = 0] ELSE p

\* Lines 1613-1635: pause(). cancelAnimationFrame takes the frame of
\* animationId from the pending ones, when it is still pending.
pause(p) ==
    IF ~p.isPlaying THEN p
    ELSE LET q == IF p.audioElement.kind # "null"
                  THEN WithGlobalAudio([p EXCEPT !.pausedTime = GlobalAudio(p).pos],
                                       [GlobalAudio(p) EXCEPT !.playing = FALSE])
                  ELSE [p EXCEPT !.pausedTime = p.currentTime]
         IN  ClockKept([q EXCEPT !.isPlaying = FALSE,
                                 !.frames = IF q.animationId THEN q.frames - 1 ELSE q.frames,
                                 !.animationId = FALSE])

\* Lines 1636-1663: animate(); update tells whether the throttle lets the lyrics
\* be updated in this frame.
animate(p, update) ==
    IF ~p.isPlaying THEN p
    ELSE LET q == [p EXCEPT !.currentTime = p.elapsed * p.playbackSpeed] IN
         IF q.audioMode THEN [q EXCEPT !.animationId = FALSE]
         ELSE [(IF update THEN updateLyricsDisplay(q) ELSE q)
                  EXCEPT !.frames = q.frames + 1, !.animationId = TRUE]

\* Lines 1571-1602: startPlayback of play(), currentSong the track play() read
\* at line 1569. The duration of an audio element is the duration of its track;
\* a released element has none (NaN).
startPlayback(p, currentSong, update) ==
    LET maxDuration == IF p.audioElement.kind = "null" THEN currentSong.duration
                       ELSE IF GlobalOwner(p) > 0
                       THEN p.songs[GlobalOwner(p)].duration
                       ELSE -1
        q == IF maxDuration >= 0 /\ p.currentTime >= maxDuration
             THEN [p EXCEPT !.currentTime = 0, !.pausedTime = 0]
             ELSE p
        r == [q EXCEPT !.isPlaying = TRUE]
    IN  IF r.audioMode /\ r.audioElement.kind # "null"
        THEN IF GlobalOwner(r) > 0
             THEN WithGlobalAudio(r, [GlobalAudio(r) EXCEPT !.pos = r.currentTime,
                                                          !.playing = TRUE])
             ELSE pause(r)
        ELSE ClockKept(animate([r EXCEPT !.elapsed = r.pausedTime], update))

\* Lines 1563-1611: play(); an element that has not loaded gets startPlayback as
\* its canplay listener.
play(p, update) ==
    IF p.currentSongIndex < 0 THEN p
    ELSE IF p.audioMode /\ p.audioElement.kind # "null" /\ ~GlobalAudio(p).ready
         THEN WithGlobalAudio(p, [GlobalAudio(p) EXCEPT !.waiting = TRUE])
         ELSE startPlayback(p, p.songs[p.currentSongIndex + 1], update)

\* Lines 1550-1561: togglePlay().
togglePlay(p, update) ==
    IF ~HasCurrentSong(p) THEN p
    ELSE IF p.isPlaying THEN pause(p)
    ELSE play(p, update)

\* Lines 1678-1689: setCurrentTime(time); the audio offset is 0. The times and
\* speeds of the model are whole numbers the division of line 1680 is exact for.
setCurrentTime(p, time) ==
    LET q == [p EXCEPT !.currentTime = time, !.elapsed = time \div p.playbackSpeed,
                       !.pausedTime = time]
        r == IF q.audioMode /\ q.audioElement.kind # "null"
             THEN WithGlobalAudio(q, [GlobalAudio(q) EXCEPT !.pos = time])
             ELSE q
    IN  ClockKept(updateLyricsDisplay(r))

\* Lines 1708-1718: setPlaybackSpeed(speed); the playbackRate of an audio element
\* is not followed. The division of line 1716 is exact for the times and speeds
\* of the model.
setPlaybackSpeed(p, speed) ==
    LET q == [p EXCEPT !.playbackSpeed = speed] IN
    IF q.isPlaying /\ ~q.audioMode
    THEN ClockKept([q EXCEPT !.elapsed = q.currentTime \div speed])
    ELSE q

\* Lines 2717-2745: jumpToLyric(lyricIndex); the index is forced after the seek.
jumpToLyric(p, lyricIndex) ==
    IF p.currentSongIndex < 0 THEN p
    ELSE LET lyrics == p.songs[p.currentSongIndex + 1].lyrics IN
         IF lyricIndex < 0 \/ lyricIndex >= Len(lyrics) THEN p
         ELSE [setCurrentTime(p, lyrics[lyricIndex + 1].time)
                  EXCEPT !.currentLyricIndex = lyricIndex]

(***************************************************************************)
(* Catalog operations.                                                     *)
(***************************************************************************)

\* Lines 1337-1382: the audio element of the track selected, at position k
\* (1-based): made when the mode plays audio and the track has a file and no
\* element, taken over when there is one, null otherwise.
BindAudio(p, k) ==
    LET newSong == p.songs[k]
        songMode == getSongMode(newSong)
        q == [p EXCEPT !.audioMode = songMode \in {"sync", "audio"}]
    IN  IF q.audioMode /\ HasAudioFile(newSong) /\ ~HasAudioElement(newSong)
        THEN [q EXCEPT !.songs[k] = WithField(newSong, "audioElement", NewAudio),
                       !.audioElement = ElementOf(newSong.name)]
        ELSE IF q.audioMode
        THEN [q EXCEPT !.audioElement = IF HasAudioElement(newSong)
                                        THEN ElementOf(newSong.name) ELSE NoElement]
        ELSE [q EXCEPT !.audioElement = NoElement]

\* Lines 1304-1404: switchToSong(index).
switchToSong(p, index) ==
    IF index < 0 \/ index >= Len(p.songs) THEN p
    ELSE LET released == IF HasCurrentSong(p)
                         THEN ReleaseAudio(p, p.currentSongIndex + 1) ELSE p
             q == [pause(released) EXCEPT !.currentSongIndex = index,
                                          !.currentLyricIndex = -1,
                                          !.currentTime = 0,
                                          !.pausedTime = 0,
                                          !.playHistory =
                                              IF p.playMode = "random" /\ ~Includes(@, index)
                                              THEN Append(@, index) ELSE @]
         IN  updateLyricsDisplay(BindAudio(q, index + 1))

\* Lines 997-1000: a track without a user mode gets 'auto'.
WithUserMode(song) ==
    IF "userMode" \in DOMAIN song THEN song ELSE WithField(song, "userMode", "auto")

\* addSong with the search for a track of the same name left out.
addSongNoCheck(p, song) ==
    LET q == [p EXCEPT !.songs = Append(p.songs, WithUserMode(song))]
    IN  IF Len(q.songs) = 1 THEN switchToSong(q, 0) ELSE q

\* Lines 996-1018: addSong(song).
addSong(p, song) ==
    IF \E i \in 1..Len(p.songs) : p.songs[i].name = song.name THEN p
    ELSE LET q == [p EXCEPT !.songs = Append(p.songs, WithUserMode(song))]
         IN  IF Len(q.songs) = 1 THEN switchToSong(q, 0) ELSE q

\* removeSong with the current index left as it is when an earlier track goes.
removeSongNoShift(p, index) ==
    IF index < 0 \/ index >= Len(p.songs) THEN p
    ELSE LET released == ReleaseAudio(p, index + 1)
             q == IF index = p.currentSongIndex THEN pause(released) ELSE released
             csi == IF index = p.currentSongIndex THEN -1 ELSE p.currentSongIndex
             rest == [i \in 1..(Len(q.songs) - 1) |->
                         IF i <= index THEN q.songs[i] ELSE q.songs[i + 1]]
         IN  [q EXCEPT !.songs = rest,
                       !.currentSongIndex = IF Len(rest) = 0 THEN -1 ELSE csi]

\* removeSong without the pause() of line 1477.
removeSongNoPause(p, index) ==
    IF index < 0 \/ index >= Len(p.songs) THEN p
    ELSE LET q == ReleaseAudio(p, index + 1)
             csi == IF index = p.currentSongIndex THEN -1
                    ELSE IF index < p.currentSongIndex THEN p.currentSongIndex - 1
                    ELSE p.currentSongIndex
             rest == [i \in 1..(Len(q.songs) - 1) |->
                         IF i <= index THEN q.songs[i] ELSE q.songs[i + 1]]
         IN  [q EXCEPT !.songs = rest,
                       !.currentSongIndex = IF Len(rest) = 0 THEN -1 ELSE csi]

\* Lines 1458-1502: removeSong(index).
removeSong(p, index) ==
    IF index < 0 \/ index >= Len(p.songs) THEN p
    ELSE LET released == ReleaseAudio(p, index + 1)
             q == IF index = p.currentSongIndex THEN pause(released) ELSE released
             csi == IF index = p.currentSongIndex THEN -1
                    ELSE IF index < p.currentSongIndex THEN p.currentSongIndex - 1
                    ELSE p.currentSongIndex
             rest == [i \in 1..(Len(q.songs) - 1) |->
                         IF i <= index THEN q.songs[i] ELSE q.songs[i + 1]]
         IN  [q EXCEPT !.songs = rest,
                       !.currentSongIndex = IF Len(rest) = 0 THEN -1 ELSE csi]

\* clearPlaylist without the pause() of line 2294.
clearPlaylistNoPause(p) ==
    IF Len(p.songs) = 0 THEN p
    ELSE [p EXCEPT !.songs = <<>>,
                   !.currentSongIndex = -1,
                   !.audioElement = IF p.audioElement.kind = "null"
                                    THEN NoElement ELSE ReleasedElement]

\* Lines 2287-2316: clearPlaylist(force), the user confirming when asked. The
\* elements of the tracks are paused and their src emptied; this.audioElement
\* keeps its reference.
clearPlaylist(p) ==
    IF Len(p.songs) = 0 THEN p
    ELSE LET q == pause(p) IN
         [q EXCEPT !.songs = <<>>,
                   !.currentSongIndex = -1,
                   !.audioElement = IF q.audioElement.kind = "null"
                                    THEN NoElement ELSE ReleasedElement]

\* Array.prototype.splice's start index: a negative start counts from the end,
\* and the result is clamped to 0..length.
SpliceStart(len, start) ==
    IF start < 0 THEN (IF len + start < 0 THEN 0 ELSE len + start)
    ELSE Min(start, len)

\* An element JavaScript reads as undefined (the first element of an empty
\* array of removed elements).
Undefined == [name |-> <<"undefined">>, lyrics |-> <<>>, duration |-> 0]

\* a.splice(start, 1): the array left, and the removed elements.
SpliceOut(a, start) ==
    LET k == SpliceStart(Len(a), start) IN
    IF k >= Len(a) THEN [left |-> a, removed |-> <<>>]
    ELSE [left |-> SubSeq(a, 1, k) \o SubSeq(a, k + 2, Len(a)),
          removed |-> <<a[k + 1]>>]

\* a.splice(start, 0, x): the array with x inserted.
SpliceIn(a, start, x) ==
    LET k == SpliceStart(Len(a), start) IN
    SubSeq(a, 1, k) \o <<x>> \o SubSeq(a, k + 1, Len(a))

\* The current index after a move, with the moved-track case left out.
ReorderedIndexNoFollow(csi, fromIndex, toIndex) ==
    IF csi > fromIndex /\ csi <= toIndex THEN csi - 1
    ELSE IF csi < fromIndex /\ csi >= toIndex THEN csi + 1
    ELSE csi

\* Lines 1284-1294: the current index after a move.
ReorderedIndex(csi, fromIndex, toIndex) ==
    IF csi = fromIndex THEN toIndex
    ELSE IF csi > fromIndex /\ csi <= toIndex THEN csi - 1
    ELSE IF csi < fromIndex /\ csi >= toIndex THEN csi + 1
    ELSE csi

\* Lines 1277-1302: reorderSongs(fromIndex, toIndex).
reorderSongs(p, fromIndex, toIndex) ==
    IF fromIndex = toIndex THEN p
    ELSE LET out == SpliceOut(p.songs, fromIndex)
             movedSong == IF Len(out.removed) > 0 THEN out.removed[1] ELSE Undefined
         IN  [p EXCEPT !.songs = SpliceIn(out.left, toIndex, movedSong),
                       !.currentSongIndex =
                           ReorderedIndex(p.currentSongIndex, fromIndex, toIndex)]

(***************************************************************************)
(* Mode changes, audio files, timers and the events of the browser.        *)
(***************************************************************************)

\* Lines 2684-2714: setupPlaybackMode(song, mode) for the track at position k
\* (1-based).
setupPlaybackMode(p, k, mode) ==
    LET q == IF p.audioElement.kind # "null"
             THEN WithGlobalAudio(p, [GlobalAudio(p) EXCEPT !.playing = FALSE])
             ELSE p
        song == q.songs[k]
    IN  IF mode \in {"sync", "audio"}
        THEN IF HasAudioElement(song)
             THEN [q EXCEPT !.audioElement = ElementOf(song.name), !.audioMode = TRUE]
             ELSE q
        ELSE [q EXCEPT !.audioMode = FALSE, !.audioElement = NoElement]

\* Lines 2660-2681: applyModeChange(song) for the track at position k; the
\* timer of 100 ms holds the time captured.
applyModeChange(p, k) ==
    LET effectiveMode == getEffectiveMode(p.songs[k])
        wasPlaying == p.isPlaying
        captured == p.currentTime
        q == setupPlaybackMode(pause(p), k, effectiveMode)
    IN  IF wasPlaying
        THEN [q EXCEPT !.timers.resume =
                           @ \cup {[time |-> captured, song |-> p.songs[k].name]}]
        ELSE q

\* Lines 2637-2657: changeSongMode(songIndex, newMode).
changeSongMode(p, songIndex, newMode) ==
    IF songIndex < 0 \/ songIndex >= Len(p.songs) THEN p
    ELSE LET q == [p EXCEPT !.songs[songIndex + 1] =
                                WithField(p.songs[songIndex + 1], "userMode", newMode)]
         IN  IF q.currentSongIndex = songIndex /\ q.isPlaying
             THEN applyModeChange(q, songIndex + 1)
             ELSE q

\* Lines 1130-1139 with 2600-2622: the options of the mode selector of a track:
\* 'auto' and the modes that are available.
SelectorModes(song) ==
    {"auto"} \cup {mode \in {"lyrics", "audio", "sync"} :
                       Includes(getAvailableModes(song), mode)}

\* Lines 839-851: loadAudioFiles for a file that matches the track at position
\* k: the file becomes the track's audioFile.
audioFileMatched(p, k) ==
    [p EXCEPT !.songs[k] = WithField(p.songs[k], "audioFile", TRUE)]

\* The timer of a digit key, of next and previous and of a double click is set.
WithPlayTimer(p) == [p EXCEPT !.timers.play = @ + 1]

\* Lines 1363-1372 with 923-937: the position of the element of the track at
\* position k has advanced to pos and its timeupdate listener runs; update
\* tells whether the throttle lets the lyrics be updated.
timeUpdated(p, k, pos, update) ==
    LET song == p.songs[k]
        q == [p EXCEPT !.songs[k] =
                           WithField(song, "audioElement",
                                     [AudioElementOf(song) EXCEPT !.pos = pos])]
    IN  IF q.audioMode /\ q.isPlaying /\ q.audioElement = ElementOf(song.name)
        THEN LET r == [q EXCEPT !.currentTime = pos]
             IN  IF update THEN updateLyricsDisplay(r) ELSE r
        ELSE q

\* Lines 1350-1358 and 1606-1608: the element of the track at position k has
\* loaded: its loadedmetadata listener plays it when the player plays, and a
\* canplay listener of play() that waits on it runs startPlayback, whatever the
\* current track is by then: play() read the track of the element it waits on.
audioLoaded(p, k, update) ==
    LET song == p.songs[k]
        e == AudioElementOf(song)
        q == [p EXCEPT !.songs[k] =
                           WithField(song, "audioElement",
                                     [e EXCEPT !.ready = TRUE,
                                               !.waiting = FALSE,
                                               !.playing = e.playing \/ p.isPlaying])]
    IN  IF e.waiting THEN startPlayback(q, q.songs[k], update) ELSE q

(***************************************************************************)
(* Names: characters, digits and their order.                              *)
(***************************************************************************)
Digits == <<"0", "1", "2", "3", "4", "5", "6", "7", "8", "9">>

IsDigit(c) == \E i \in 1..Len(Digits) : Digits[i] = c

\* The value of one digit character.
DigitValue(c) == (CHOOSE i \in 1..Len(Digits) : Digits[i] = c) - 1

\* parseInt of a non-empty string of digits.
RECURSIVE ParseInt(_)
ParseInt(ds) ==
    IF Len(ds) = 0 THEN 0
    ELSE 10 * ParseInt(SubSeq(ds, 1, Len(ds) - 1)) + DigitValue(ds[Len(ds)])

\* The longest run of digits of s that starts at position i (1-based): \d+ .
RECURSIVE DigitRun(_, _)
DigitRun(s, i) ==
    IF i <= Len(s) /\ IsDigit(s[i]) THEN <<s[i]>> \o DigitRun(s, i + 1) ELSE <<>>

\* The characters of the names of the model, in the order localeCompare(., 'zh-CN')
\* gives them: digits before letters, letters alphabetically.
Collation == Digits \o <<"a", "b", "c", "d", "e", "f", "g", "h", "i", "j", "k", "l", "m",
                         "n", "o", "p", "q", "r", "s", "t", "u", "v", "w", "x", "y", "z">>

CharRank(c) == CHOOSE i \in 1..Len(Collation) : Collation[i] = c

\* nameA.localeCompare(nameB, 'zh-CN') for names over Collation: -1, 0 or 1.
RECURSIVE LocaleCompare(_, _)
LocaleCompare(a, b) ==
    IF Len(a) = 0 /\ Len(b) = 0 THEN 0
    ELSE IF Len(a) = 0 THEN -1
    ELSE IF Len(b) = 0 THEN 1
    ELSE IF CharRank(a[1]) < CharRank(b[1]) THEN -1
    ELSE IF CharRank(a[1]) > CharRank(b[1]) THEN 1
    ELSE LocaleCompare(Tail(a), Tail(b))

\* Lines 2174-2177: extractNumber(name); NoNumber stands for Infinity.
NoNumber == -1

ExtractNumber(name) ==
    LET run == DigitRun(name, 1) IN
    IF Len(run) > 0 THEN ParseInt(run) ELSE NoNumber

\* The comparator with the numeric prefixes compared as text.
SongCompareByText(a, b) == LocaleCompare(a.name, b.name)

\* Lines 2169-2195: the comparator of sortPlaylist: negative, 0 or positive.
SongCompare(a, b) ==
    LET numA == ExtractNumber(a.name)
        numB == ExtractNumber(b.name)
    IN  IF numA # NoNumber /\ numB # NoNumber
        THEN IF numA # numB THEN numA - numB ELSE LocaleCompare(a.name, b.name)
        ELSE IF numA # NoNumber THEN -1
        ELSE IF numB # NoNumber THEN 1
        ELSE LocaleCompare(a.name, b.name)

\* x placed into the sorted sequence a, after the elements it does not precede
\* (Array.prototype.sort is stable).
RECURSIVE InsertSong(_, _)
InsertSong(a, x) ==
    IF Len(a) = 0 THEN <<x>>
    ELSE IF SongCompare(a[Len(a)], x) <= 0 THEN Append(a, x)
    ELSE Append(InsertSong(SubSeq(a, 1, Len(a) - 1), x), a[Len(a)])

\* this.songs.sort(comparator).
RECURSIVE SortSongs(_)
SortSongs(a) ==
    IF Len(a) = 0 THEN <<>>
    ELSE InsertSong(SortSongs(SubSeq(a, 1, Len(a) - 1)), a[Len(a)])

\* songs.findIndex(song => song.name === name): -1 when there is none.
FindIndex(a, name) ==
    IF \E i \in 1..Len(a) : a[i].name = name
    THEN (CHOOSE i \in 1..Len(a) :
              a[i].name = name /\ \A j \in 1..(i - 1) : a[j].name # name) - 1
    ELSE -1

\* The index after a sort when the current track is not looked up again.
ResortedIndexKept(sorted, csi, currentSongName) == csi

\* Lines 2197-2200: the current index after the sort; currentSongName is <<>>
\* for null and for the empty name, which are both falsy.
ResortedIndex(sorted, csi, currentSongName) ==
    IF Len(currentSongName) > 0 THEN FindIndex(sorted, currentSongName) ELSE csi

\* Lines 2159-2208: sortPlaylist().
sortPlaylist(p) ==
    IF Len(p.songs) <= 1 THEN p
    ELSE LET currentSongName == IF p.currentSongIndex >= 0
                                THEN p.songs[p.currentSongIndex + 1].name
                                ELSE <<>>
             sorted == SortSongs(p.songs)
         IN  [p EXCEPT !.songs = sorted,
                       !.currentSongIndex =
                           ResortedIndex(sorted, p.currentSongIndex, currentSongName)]


(***************************************************************************)
(* TimestampParser: parseLrc.                                              *)
(*                                                                         *)
(* A JavaScript value handed to parseLrc is a record: its type, and its    *)
(* characters when it is a string or its value when it is a number.        *)
(***************************************************************************)
StringValue(chars) == [type |-> "string", chars |-> chars, num |-> 0]
NumberValue(n) == [type |-> "number", chars |-> <<>>, num |-> n]
NullValue == [type |-> "null", chars |-> <<>>, num |-> 0]
UndefinedValue == [type |-> "undefined", chars |-> <<>>, num |-> 0]

\* !v : the falsy values among the above.
Falsy(v) ==
    \/ v.type \in {"null", "undefined"}
    \/ v.type = "number" /\ v.num = 0
    \/ v.type = "string" /\ Len(v.chars) = 0

\* The argument check with the test for an empty value left out.
InvalidContentTypeOnly(v) == v.type # "string"

\* Line 965: !lrcContent || typeof lrcContent !== 'string'.
InvalidContent(v) == Falsy(v) \/ v.type # "string"

\* s.split('\n'): the pieces of s between line feeds.
RECURSIVE Split(_)
Split(s) ==
    IF \A i \in 1..Len(s) : s[i] # "\n" THEN <<s>>
    ELSE LET k == CHOOSE i \in 1..Len(s) :
                      s[i] = "\n" /\ \A j \in 1..(i - 1) : s[j] # "\n"
         IN  <<SubSeq(s, 1, k - 1)>> \o Split(SubSeq(s, k + 1, Len(s)))

\* s.trim(), for the white space of the model (the space).
RECURSIVE Trim(_)
Trim(s) ==
    IF Len(s) = 0 THEN s
    ELSE IF s[1] = " " THEN Trim(Tail(s))
    ELSE IF s[Len(s)] = " " THEN Trim(SubSeq(s, 1, Len(s) - 1))
    ELSE s

NoMatch == [matched |-> FALSE, m1 |-> <<>>, m2 |-> <<>>, m3 |-> <<>>, m4 |-> <<>>]

\* Line 974: the pattern \[(\d+):(\d+)(?:\.(\d+))?\](.*) tried at position p of
\* the line; m3 is <<>> when the fraction group did not take part.
MatchAt(line, p) ==
    IF ~(p <= Len(line) /\ line[p] = "[") THEN NoMatch
    ELSE LET m1 == DigitRun(line, p + 1)
             q == p + 1 + Len(m1)
         IN  IF ~(Len(m1) > 0 /\ q <= Len(line) /\ line[q] = ":") THEN NoMatch
             ELSE LET m2 == DigitRun(line, q + 1)
                      r == q + 1 + Len(m2)
                  IN  IF ~(Len(m2) > 0 /\ r <= Len(line)) THEN NoMatch
                      ELSE IF line[r] = "]"
                           THEN [matched |-> TRUE, m1 |-> m1, m2 |-> m2, m3 |-> <<>>,
                                 m4 |-> SubSeq(line, r + 1, Len(line))]
                      ELSE IF line[r] = "."
                           THEN LET m3 == DigitRun(line, r + 1)
                                    e == r + 1 + Len(m3)
                                IN  IF Len(m3) > 0 /\ e <= Len(line) /\ line[e] = "]"
                                    THEN [matched |-> TRUE, m1 |-> m1, m2 |-> m2,
                                          m3 |-> m3,
                                          m4 |-> SubSeq(line, e + 1, Len(line))]
                                    ELSE NoMatch
                      ELSE NoMatch

\* line.match(pattern): the match at the first position that has one.
Match(line) ==
    IF \E p \in 1..Len(line) : MatchAt(line, p).matched
    THEN MatchAt(line, CHOOSE p \in 1..Len(line) :
                           /\ MatchAt(line, p).matched
                           /\ \A j \in 1..(p - 1) : ~MatchAt(line, j).matched)
    ELSE NoMatch

\* The centiseconds with the fraction digits not padded: ".1" read as 1.
CentisecondsUnpadded(m3) ==
    IF Len(m3) > 0 THEN ParseInt(SubSeq(m3, 1, Min(2, Len(m3)))) ELSE 0

\* Line 978: match[3] ? parseInt(match[3].padEnd(2, '0').slice(0, 2)) : 0.
Centiseconds(m3) ==
    IF Len(m3) > 0
    THEN ParseInt(SubSeq(m3 \o (IF Len(m3) < 2 THEN <<"0">> ELSE <<>>), 1, 2))
    ELSE 0

\* Line 981: a seconds field of this value or more is a time format error.
SecondsLimit == 60

\* The glyph that stands for an empty lyric text (line 986).
Placeholder == <<"*">>

\* Lines 974-990: the entries one line adds to lyrics: one, or none when the
\* line does not match or its time is rejected (the throw is caught in place).
ParseLine(line) ==
    LET match == Match(line) IN
    IF ~match.matched THEN <<>>
    ELSE LET minutes == ParseInt(match.m1)
             seconds == ParseInt(match.m2)
             centiseconds == Centiseconds(match.m3)
             text == Trim(match.m4)
         IN  IF minutes < 0 \/ seconds < 0 \/ seconds >= SecondsLimit THEN <<>>
             ELSE <<[time |-> minutes * 6000 + seconds * 100 + centiseconds,
                     text |-> IF Len(text) > 0 THEN text ELSE Placeholder]>>

\* Lines 969-991: lyrics after the forEach, in the order the lines were met.
RECURSIVE ParsedEntries(_)
ParsedEntries(lines) ==
    IF Len(lines) = 0 THEN <<>>
    ELSE ParseLine(lines[1]) \o ParsedEntries(Tail(lines))

\* x placed into the sorted sequence a after the entries whose time is not later.
RECURSIVE InsertByTime(_, _)
InsertByTime(a, x) ==
    IF Len(a) = 0 THEN <<x>>
    ELSE IF a[Len(a)].time <= x.time THEN Append(a, x)
    ELSE Append(InsertByTime(SubSeq(a, 1, Len(a) - 1), x), a[Len(a)])

\* Line 993: lyrics.sort((a, b) => a.time - b.time), a stable sort.
RECURSIVE SortByTime(_)
SortByTime(a) ==
    IF Len(a) = 0 THEN <<>>
    ELSE InsertByTime(SortByTime(SubSeq(a, 1, Len(a) - 1)), a[Len(a)])

NotCalled == [status |-> "not called", lyrics |-> <<>>]
Threw == [status |-> "threw", lyrics |-> <<>>]

\* Lines 963-994: parseLrc(lrcContent): the timeline returned, or the throw.
parseLrc(v) ==
    IF InvalidContent(v) THEN Threw
    ELSE [status |-> "returned", lyrics |-> SortByTime(ParsedEntries(Split(v.chars)))]


\* No call of parseLrc is modelled: the variables of SpecParse stay as they are.
ParserIdle == lrcContent = UndefinedValue /\ parseResult = NotCalled

\* No call of a mode function is modelled: the variables of SpecModes stay as
\* they are.
NoModeCall == [fn |-> "none", value |-> <<>>]
NoScan == [queries |-> 0, iterations |-> 0]
ModesIdle ==
    /\ modeSong = NullAudio
    /\ modeResult = NoModeCall
    /\ callArgs = <<>>
    /\ callResult = NoModeCall
    /\ scanWork = NoScan

(***************************************************************************)
(* Inputs: LRC texts, files and playlist exports.                          *)
(***************************************************************************)

\* n < 100 written with two digits.
Pad2(n) == <<Digits[(n \div 10) + 1], Digits[(n % 10) + 1]>>

\* The tag [MM:SS] or [MM:SS.f...] for minutes m, seconds s and the fraction
\* digits frac (none when frac is empty).
Tag(m, s, frac) ==
    <<"[">> \o Pad2(m) \o <<":">> \o Pad2(s)
        \o (IF Len(frac) > 0 THEN <<".">> \o frac ELSE <<>>) \o <<"]">>

\* A tag line: the tag of tp = <<m, s, frac, text>> followed by its text.
TagLine(tp) == Tag(tp[1], tp[2], tp[3]) \o tp[4]

\* The tag lines of the model: <<minutes, seconds, fraction digits, text>>.
TagPool ==
    { <<0, 1, <<"0", "0">>, <<"a">>>>,
      <<0, 1, <<"0", "0">>, <<"b">>>>,
      <<0, 2, <<>>, <<"c">>>>,
      <<0, 0, <<"5">>, <<" ", "d", " ">>>>,
      <<0, 3, <<"1", "2", "5">>, <<>>>>,
      <<1, 59, <<"0", "9">>, <<"e">>>>,
      <<0, 75, <<>>, <<"f">>>> }

OffsetLine == <<"[", "o", "f", "f", "s", "e", "t", ":", "1", "0", "0", "0", "]">>
BadLine == <<"[", "0", "0", ":", "b", "a", "d", "]", "x">>

LinePool == { TagLine(tp) : tp \in TagPool } \cup {OffsetLine, BadLine}

\* lines.join('\n').
RECURSIVE JoinLines(_)
JoinLines(lines) ==
    IF Len(lines) = 0 THEN <<>>
    ELSE IF Len(lines) = 1 THEN lines[1]
    ELSE lines[1] \o <<"\n">> \o JoinLines(Tail(lines))

\* The sequences of 1..n elements of S.
SeqsUpTo(S, n) == UNION { [1..k -> S] : k \in 1..n }

\* The arguments parseLrc is called with: texts of up to MaxTextLines lines, the
\* empty string, and values that are no strings.
ParseInputs ==
    { StringValue(JoinLines(ls)) : ls \in SeqsUpTo(LinePool, MaxTextLines) }
        \cup {StringValue(<<>>), NullValue, UndefinedValue, NumberValue(123), NumberValue(0)}

(***************************************************************************)
(* The parser on its own: every input, one call.                           *)
(***************************************************************************)
InitParse ==
    /\ PlayerIs(ConstructedPlayer)
    /\ lrcContent \in ParseInputs
    /\ parseResult = NotCalled
    /\ ModesIdle
    /\ lastOp = "constructor"

\* A call parseLrc(lrcContent).
CallParseLrc ==
    /\ parseResult.status = "not called"
    /\ parseResult' = parseLrc(lrcContent)
    /\ lastOp' = "parseLrc"
    /\ UNCHANGED <<playerVars, lrcContent, modeVars>>

NextParse == CallParseLrc

SpecParse == InitParse /\ [][NextParse]_vars


(***************************************************************************)
(* Properties of parseLrc, checked under SpecParse.                        *)
(***************************************************************************)

\* The lines of the text parseLrc was called with.
ContentLines == Split(lrcContent.chars)

Returned == parseResult.status = "returned"

\* C4: for every input text, the sequence parseLrc returns is sorted ascending
\* by time and holds no two entries with equal time.
C4_SortedNoEqualTimes ==
    Returned =>
        \A i, j \in 1..Len(parseResult.lyrics) :
            i < j => parseResult.lyrics[i].time < parseResult.lyrics[j].time

\* The texts of the entries of raw whose time is t, in the order of raw.
RECURSIVE TextsAt(_, _)
TextsAt(raw, t) ==
    IF Len(raw) = 0 THEN <<>>
    ELSE (IF raw[1].time = t THEN <<raw[1].text>> ELSE <<>>) \o TextsAt(Tail(raw), t)

\* texts.join(" / ").
RECURSIVE JoinSlash(_)
JoinSlash(texts) ==
    IF Len(texts) = 0 THEN <<>>
    ELSE IF Len(texts) = 1 THEN texts[1]
    ELSE texts[1] \o <<" ", "/", " ">> \o JoinSlash(Tail(texts))

\* C5: the entries that share a time are merged into one entry that keeps the
\* time, with the merged texts joined by " / " in the order they were met: for
\* every time met in the text, the result has exactly one entry at that time,
\* and its text is that join.
C5_EqualTimesMerged ==
    Returned =>
        LET raw == ParsedEntries(ContentLines)
            out == parseResult.lyrics
        IN  \A k \in 1..Len(raw) :
                /\ Cardinality({i \in 1..Len(out) : out[i].time = raw[k].time}) = 1
                /\ \A i \in 1..Len(out) :
                       out[i].time = raw[k].time =>
                           out[i].text = JoinSlash(TextsAt(raw, raw[k].time))

\* Whether the line is an [offset:N] tag, and its N in milliseconds.
OffsetPrefix == <<"[", "o", "f", "f", "s", "e", "t", ":">>

IsOffsetTag(line) ==
    /\ Len(line) > Len(OffsetPrefix) + 1
    /\ SubSeq(line, 1, Len(OffsetPrefix)) = OffsetPrefix
    /\ Len(DigitRun(line, Len(OffsetPrefix) + 1)) = Len(line) - Len(OffsetPrefix) - 1
    /\ line[Len(line)] = "]"

OffsetMillis(line) == ParseInt(DigitRun(line, Len(OffsetPrefix) + 1))

\* C6: when the text holds an [offset:N] tag, wherever it stands, every entry
\* returned has its time shifted by N/1000 seconds (N/10 centiseconds): the
\* result is the timeline of the tag lines, each time moved by that much.
C6_OffsetShiftsEveryTime ==
    Returned =>
        \A k \in 1..Len(ContentLines) :
            IsOffsetTag(ContentLines[k]) =>
                LET plain == SortByTime(ParsedEntries(ContentLines))
                    shift == OffsetMillis(ContentLines[k]) \div 10
                IN  /\ Len(parseResult.lyrics) = Len(plain)
                    /\ \A i \in 1..Len(plain) :
                           parseResult.lyrics[i].time = plain[i].time + shift

\* C7: parseLrc fails with an error, and returns no timeline, when its argument
\* is not a string or is empty or null.
C7_InvalidInputThrows ==
    (parseResult.status # "not called"
        /\ (lrcContent.type # "string" \/ Len(lrcContent.chars) = 0))
    => (parseResult.status = "threw" /\ parseResult.lyrics = <<>>)

\* C7 witness: parseLrc has been called with the empty string and threw.
C7_Witness ==
    /\ lastOp = "parseLrc"
    /\ lrcContent = StringValue(<<>>)
    /\ parseResult.status = "threw"

\* The hundredths a fraction stands for: its digits right-padded to two and cut
\* after two (".1" is 10, ".125" is 12, no fraction is 0).
ExpectedHundredths(frac) ==
    IF Len(frac) = 0 THEN 0
    ELSE IF Len(frac) = 1 THEN 10 * DigitValue(frac[1])
    ELSE 10 * DigitValue(frac[1]) + DigitValue(frac[2])

\* minutes*60 + seconds + hundredths/100, in centiseconds.
ExpectedTime(tp) == tp[1] * 6000 + tp[2] * 100 + ExpectedHundredths(tp[3])

\* The result holds an entry for every tag line of the text whose seconds are
\* below limit, at the time the tag says.
TagLinesParsed(limit) ==
    \A k \in 1..Len(ContentLines) : \A tp \in TagPool :
        (ContentLines[k] = TagLine(tp) /\ tp[2] < limit) =>
            \E i \in 1..Len(parseResult.lyrics) :
                parseResult.lyrics[i].time = ExpectedTime(tp)

\* C8 as stated: every tag line with seconds < 100 (60..99 included) yields an
\* entry with time = minutes*60 + seconds + hundredths/100, the fraction digits
\* right-padded to two and cut after two.
C8_TagTimeSecondsBelow100 == Returned => TagLinesParsed(100)

\* C8 as amended: every tag line with seconds < 60 yields an entry with that
\* time, and the tag lines with seconds of 60 or more yield no entry (the result
\* has as many entries as the text has tag lines with seconds < 60).
C8_TagTimeSecondsBelow60 ==
    Returned =>
        /\ TagLinesParsed(60)
        /\ Len(parseResult.lyrics) =
               Cardinality({k \in 1..Len(ContentLines) :
                               \E tp \in TagPool :
                                   ContentLines[k] = TagLine(tp) /\ tp[2] < 60})

\* C8 witness: a text with a one-digit fraction (.5), a three-digit fraction
\* (.125) and a seconds field of 75 has been parsed: 50, 312, and no third entry.
C8_Witness ==
    /\ Returned
    /\ Len(ContentLines) = 3
    /\ \E k \in 1..3 : ContentLines[k] = TagLine(<<0, 75, <<>>, <<"f">>>>)
    /\ Len(parseResult.lyrics) = 2
    /\ parseResult.lyrics[1].time = 50
    /\ parseResult.lyrics[2].time = 312


(***************************************************************************)
(* Files and playlist exports the player is given.                         *)
(***************************************************************************)

\* file.name.replace(/\.[^/.]+$/, ""): the name without its extension.
StripExtension(name) ==
    IF \E k \in 1..(Len(name) - 1) :
           name[k] = "." /\ \A j \in (k + 1)..Len(name) : name[j] \notin {".", "/"}
    THEN SubSeq(name, 1, (CHOOSE k \in 1..(Len(name) - 1) :
                              name[k] = "."
                              /\ \A j \in (k + 1)..Len(name) : name[j] \notin {".", "/"}) - 1)
    ELSE name

LrcExt == <<".", "l", "r", "c">>

\* A line with the time of c centiseconds (below one second) and the text x.
Line(c, x) == Tag(0, 0, Pad2(c)) \o <<x>>

\* The lyric files of the model: times 0, 0, 2 (two lines share time 0);
\* 0, 2, 3; a text without tag lines (no lyrics); and an empty file.
FilePool ==
    { [name |-> <<"1", "a">> \o LrcExt,
       content |-> JoinLines(<<Line(0, "a"), Line(0, "b"), Line(2, "c")>>)],
      [name |-> <<"0", "2", "b">> \o LrcExt,
       content |-> JoinLines(<<Line(3, "c"), Line(0, "a"), Line(2, "b")>>)],
      [name |-> <<"d">> \o LrcExt, content |-> BadLine],
      [name |-> <<"e">> \o LrcExt, content |-> <<>>] }

\* Lines 791-796: the song made of a file and its parsed lyrics; the default
\* duration is 300 s, else the last time plus 5 s.
SongOfFile(file, lyrics) ==
    [name |-> StripExtension(file.name),
     lyrics |-> lyrics,
     duration |-> IF Len(lyrics) > 0 THEN lyrics[Len(lyrics)].time + 500 ELSE 30000]

\* An entry of the songs array of a playlist export: lyricsIsArray tells whether
\* its lyrics field is an array (lyrics is <<>> when it is not).
ImportEntry(name, lyricsIsArray, lyrics, duration) ==
    [name |-> name, lyricsIsArray |-> lyricsIsArray, lyrics |-> lyrics,
     duration |-> duration]

\* The playlist files of the model: one with a track "e" whose lines are out of
\* order, an entry without a name, an entry without lyrics and a second "e";
\* one whose songs field is no array; one without a valid entry.
ImportPool ==
    { [songsIsArray |-> TRUE,
       songs |-> << ImportEntry(<<"e">>, TRUE,
                                <<[time |-> 3, text |-> <<"b">>],
                                  [time |-> 1, text |-> <<"a">>]>>, 0),
                    ImportEntry(<<>>, TRUE, <<[time |-> 0, text |-> <<"a">>]>>, 5),
                    ImportEntry(<<"x">>, FALSE, <<>>, 5),
                    ImportEntry(<<"e">>, TRUE, <<[time |-> 2, text |-> <<"c">>]>>, 2) >>],
      [songsIsArray |-> FALSE, songs |-> <<>>],
      [songsIsArray |-> TRUE, songs |-> << ImportEntry(<<>>, TRUE, <<>>, 0) >>] }

\* Lines 2252-2254: song.name && song.lyrics && Array.isArray(song.lyrics).
ValidEntry(e) == Len(e.name) > 0 /\ e.lyricsIsArray

\* Lines 2264-2270: addSong for each valid entry, in order.
RECURSIVE AddEntries(_, _)
AddEntries(p, es) ==
    IF Len(es) = 0 THEN p
    ELSE AddEntries(addSong(p, [name |-> es[1].name, lyrics |-> es[1].lyrics,
                                duration |-> es[1].duration]),
                    Tail(es))

\* Lines 2243-2277: reader.onload of importPlaylist; a throw leaves the player
\* as it is.
importPlaylist(p, data) ==
    IF ~data.songsIsArray THEN p
    ELSE LET validSongs == SelectSeq(data.songs, ValidEntry) IN
         IF Len(validSongs) = 0 THEN p
         ELSE AddEntries(clearPlaylist(p), validSongs)

\* Lines 788-811: reader.onload of loadLrcFiles for one file; a throw of
\* parseLrc is caught and nothing is added.
lrcFileLoaded(p, file) ==
    LET parsed == parseLrc(StringValue(file.content)) IN
    IF parsed.status = "returned" THEN addSong(p, SongOfFile(file, parsed.lyrics))
    ELSE p

(***************************************************************************)
(* The matcher: audio file names against the names of the catalog.         *)
(*                                                                         *)
(* A score is a fraction [n, d] with d > 0. The source computes scores in  *)
(* floating point; for names of a few characters every quotient and        *)
(* product below is rounded from a different fraction to a different       *)
(* value, so scores compare as their fractions do.                         *)
(***************************************************************************)
Frac(n, d) == [n |-> n, d |-> d]
FracTimes(x, y) == Frac(x.n * y.n, x.d * y.d)
FracLess(x, y) == x.n * y.d < y.n * x.d
FracEqual(x, y) == x.n * y.d = y.n * x.d

\* Math.max(...scores) of a non-empty array of scores.
RECURSIVE FracMax(_)
FracMax(scores) ==
    IF Len(scores) = 1 THEN scores[1]
    ELSE LET m == FracMax(Tail(scores))
         IN  IF FracLess(scores[1], m) THEN m ELSE scores[1]

\* Lines 2517-2543: the matrix of levenshteinDistance, row by row: row i holds
\* matrix[i][0..str1.length], its first cell set to i by the first loop.
LevFirstRow(str1) == [j \in 0..Len(str1) |-> j]

RECURSIVE LevCells(_, _, _, _, _)
LevCells(str1, c, above, i, cells) ==
    LET j == Len(cells) IN
    IF j > Len(str1) THEN cells
    ELSE LevCells(str1, c, above, i,
                  Append(cells,
                         IF c = str1[j]
                         THEN above[j - 1]
                         ELSE Min(Min(above[j - 1] + 1, cells[j] + 1), above[j] + 1)))

\* The row i of the matrix from the row above it; cells[j + 1] is matrix[i][j].
LevRow(str1, c, above, i) ==
    LET cells == LevCells(str1, c, above, i, <<i>>)
    IN  [j \in 0..Len(str1) |-> cells[j + 1]]

RECURSIVE LevMatrixRow(_, _, _)
LevMatrixRow(str1, str2, i) ==
    IF i = 0 THEN LevFirstRow(str1)
    ELSE LevRow(str1, str2[i], LevMatrixRow(str1, str2, i - 1), i)

\* levenshteinDistance with the substitution case left out of the minimum.
levenshteinDistanceNoSubstitution(str1, str2) ==
    LET RECURSIVE D(_, _)
        D(i, j) == IF i = 0 THEN j
                   ELSE IF j = 0 THEN i
                   ELSE IF str2[i] = str1[j] THEN D(i - 1, j - 1)
                   ELSE Min(D(i, j - 1) + 1, D(i - 1, j) + 1)
    IN  D(Len(str2), Len(str1))

\* Lines 2517-2543: levenshteinDistance(str1, str2) = matrix[str2.length][str1.length].
levenshteinDistance(str1, str2) == LevMatrixRow(str1, str2, Len(str2))[Len(str1)]

\* Lines 2508-2515: calculateSimilarity(str1, str2).
calculateSimilarity(str1, str2) ==
    IF str1 = str2 THEN Frac(1, 1)
    ELSE IF Len(str1) = 0 \/ Len(str2) = 0 THEN Frac(0, 1)
    ELSE LET maxLength == IF Len(str1) > Len(str2) THEN Len(str1) ELSE Len(str2)
         IN  Frac(maxLength - levenshteinDistance(str1, str2), maxLength)

\* replace(/\.[^.]*$/, ''): the name up to its last dot.
StripLastDot(name) ==
    IF \E k \in 1..Len(name) : name[k] = "."
    THEN SubSeq(name, 1, (CHOOSE k \in 1..Len(name) :
                              name[k] = "." /\ \A j \in (k + 1)..Len(name) : name[j] # ".") - 1)
    ELSE name

\* The characters of [-_\s] that the names of the model hold.
IsSeparator(c) == c \in {"-", "_", " "}

RECURSIVE SkipSeparators(_)
SkipSeparators(s) ==
    IF Len(s) > 0 /\ IsSeparator(s[1]) THEN SkipSeparators(Tail(s)) ELSE s

\* replace(/^\d+[-_\s]*/, ''): without a number at the start, the name itself.
StripNumberPrefix(name) ==
    LET digits == DigitRun(name, 1) IN
    IF Len(digits) = 0 THEN name
    ELSE SkipSeparators(SubSeq(name, Len(digits) + 1, Len(name)))

\* replace(/[-_\s]+/g, '').
RECURSIVE StripSeparators(_)
StripSeparators(s) ==
    IF Len(s) = 0 THEN <<>>
    ELSE IF IsSeparator(s[1]) THEN StripSeparators(Tail(s))
    ELSE <<s[1]>> \o StripSeparators(Tail(s))

UpperLetters == <<"A", "B", "C", "D", "E", "F", "G", "H", "I", "J", "K", "L", "M",
                  "N", "O", "P", "Q", "R", "S", "T", "U", "V", "W", "X", "Y", "Z">>

\* toLowerCase(), character by character; the letters follow the digits in
\* Collation.
ToLowerCase(s) ==
    [i \in 1..Len(s) |->
        IF \E k \in 1..Len(UpperLetters) : UpperLetters[k] = s[i]
        THEN Collation[Len(Digits) + (CHOOSE k \in 1..Len(UpperLetters) : UpperLetters[k] = s[i])]
        ELSE s[i]]

\* Lines 2485-2492: normalizeForMatching(name); trim() finds no white space
\* left to remove.
normalizeForMatching(name) ==
    ToLowerCase(StripSeparators(StripNumberPrefix(StripLastDot(name))))

\* Lines 2407-2454: calculateMatchScore(songName, targetName).
calculateMatchScore(songName, targetName) ==
    LET normalizedSong == normalizeForMatching(songName)
        normalizedTarget == normalizeForMatching(targetName)
        normalizedScore == IF normalizedSong = normalizedTarget /\ Len(normalizedSong) > 2
                           THEN <<Frac(95, 100)>> ELSE <<>>
        similarity == calculateSimilarity(normalizedSong, normalizedTarget)
        songPrefix == DigitRun(songName, 1)
        targetPrefix == DigitRun(targetName, 1)
        prefixScore ==
            IF Len(songPrefix) > 0 /\ Len(targetPrefix) > 0 /\ songPrefix = targetPrefix
            THEN <<FracTimes(calculateSimilarity(
                                 normalizeForMatching(StripNumberPrefix(songName)),
                                 normalizeForMatching(StripNumberPrefix(targetName))),
                             Frac(98, 100))>>
            ELSE <<>>
        shorter == Min(Len(normalizedSong), Len(normalizedTarget))
        longer == IF Len(normalizedSong) > Len(normalizedTarget)
                  THEN Len(normalizedSong) ELSE Len(normalizedTarget)
        \* 0 / 0 is NaN, and NaN < 0.5 is false
        lengthPenalty == IF longer > 0 /\ 2 * shorter < longer
                         THEN Frac(8, 10) ELSE Frac(1, 1)
    IN  IF StripExtension(songName) = StripExtension(targetName) THEN Frac(1, 1)
        ELSE FracTimes(FracMax(normalizedScore \o <<similarity>> \o prefixScore),
                       lengthPenalty)

\* Lines 2368-2378: the candidates of findBestMatch: the positions (1-based) of
\* the tracks that score above 0, in catalog order, each with its score.
RECURSIVE Candidates(_, _, _)
Candidates(catalog, fileName, k) ==
    IF k > Len(catalog) THEN <<>>
    ELSE LET score == calculateMatchScore(catalog[k].name, fileName)
         IN  (IF FracLess(Frac(0, 1), score) THEN <<[song |-> k, score |-> score]>>
              ELSE <<>>) \o Candidates(catalog, fileName, k + 1)

\* candidates.sort((a, b) => b.score - a.score): the sort is stable, a
\* candidate goes behind those that score at least as much.
RECURSIVE InsertCandidate(_, _)

\* The same sort when a candidate goes before those that score the same.
InsertCandidateLastFirst(a, x) ==
    IF Len(a) = 0 THEN <<x>>
    ELSE IF FracLess(x.score, a[Len(a)].score) THEN Append(a, x)
    ELSE Append(InsertCandidate(SubSeq(a, 1, Len(a) - 1), x), a[Len(a)])

InsertCandidate(a, x) ==
    IF Len(a) = 0 THEN <<x>>
    ELSE IF ~FracLess(a[Len(a)].score, x.score) THEN Append(a, x)
    ELSE Append(InsertCandidate(SubSeq(a, 1, Len(a) - 1), x), a[Len(a)])

RECURSIVE SortCandidates(_)
SortCandidates(a) ==
    IF Len(a) = 0 THEN <<>>
    ELSE InsertCandidate(SortCandidates(SubSeq(a, 1, Len(a) - 1)), a[Len(a)])

\* The threshold of findBestMatch, line 2386.
MatchThreshold == Frac(7, 10)

\* findBestMatch that returns the first candidate of the catalog.
findBestMatchFirstCandidate(catalog, fileName) ==
    LET candidates == Candidates(catalog, fileName, 1)
    IN  IF Len(candidates) > 0 /\ ~FracLess(candidates[1].score, MatchThreshold)
        THEN candidates[1].song ELSE 0

\* Lines 2364-2404: findBestMatch(fileName) on the catalog: the position
\* (1-based) of the track returned, 0 for null.
findBestMatch(catalog, fileName) ==
    LET candidates == SortCandidates(Candidates(catalog, fileName, 1))
    IN  IF Len(candidates) > 0 /\ ~FracLess(candidates[1].score, MatchThreshold)
        THEN candidates[1].song ELSE 0

\* findMatchingSong without the exact match of lines 2353-2357.
findMatchingSongNoExact(catalog, fileName) == findBestMatch(catalog, fileName)

\* Lines 2351-2361: findMatchingSong(fileName) on the catalog: the position
\* (1-based) of the track returned, 0 for null.
findMatchingSong(catalog, fileName) ==
    IF FindIndex(catalog, fileName) >= 0 THEN FindIndex(catalog, fileName) + 1
    ELSE findBestMatch(catalog, fileName)

(***************************************************************************)
(* The handlers as actions.                                                *)
(***************************************************************************)
Op(name, a, b) == [op |-> name, a |-> a, b |-> b]

ValidIndices == 0..(Len(songs) - 1)

\* A lyric file has been read (loadLrcFiles, reader.onload).
LrcFileLoaded(file) ==
    /\ Len(songs) < MaxSongs
    /\ SetPlayer(lrcFileLoaded(Player, file))
    /\ lastOp' = Op("lrcFileLoaded", 0, 0)
    /\ UNCHANGED <<parserVars, modeVars>>

\* A playlist file has been read (importPlaylist, reader.onload).
ImportPlaylist(data) ==
    /\ SetPlayer(importPlaylist(Player, data))
    /\ lastOp' = Op("importPlaylist", 0, 0)
    /\ UNCHANGED <<parserVars, modeVars>>

\* The delete button of a playlist item (line 1100); b tells whether the track
\* removed stood before the current one (1) or was the current one while it
\* played (2).
RemoveSong(index) ==
    /\ SetPlayer(removeSong(Player, index))
    /\ lastOp' = Op("removeSong", index,
                    IF index < currentSongIndex THEN 1
                    ELSE IF index = currentSongIndex /\ isPlaying THEN 2 ELSE 0)
    /\ UNCHANGED <<parserVars, modeVars>>

\* Lines 1252-1274: a dragged item is dropped on the item dropIndex, above its
\* middle (isTop) or below.
DropSong(dragIndex, dropIndex, isTop) ==
    LET finalIndex == IF isTop THEN dropIndex ELSE dropIndex + 1 IN
    /\ dragIndex # dropIndex
    /\ dragIndex # finalIndex
    /\ finalIndex <= Len(songs)
    /\ SetPlayer(reorderSongs(Player, dragIndex, Min(finalIndex, Len(songs) - 1)))
    /\ lastOp' = Op("reorderSongs", dragIndex, Min(finalIndex, Len(songs) - 1))
    /\ UNCHANGED <<parserVars, modeVars>>

\* The sort button, and the timer loadLrcFiles sets; b tells whether the order
\* of the tracks changes.
SortPlaylist ==
    /\ SetPlayer(sortPlaylist(Player))
    /\ lastOp' = Op("sortPlaylist", 0, IF sortPlaylist(Player).songs # songs THEN 1 ELSE 0)
    /\ UNCHANGED <<parserVars, modeVars>>

\* The clear button, the user confirming.
ClearPlaylist ==
    /\ SetPlayer(clearPlaylist(Player))
    /\ lastOp' = Op("clearPlaylist", 0, 0)
    /\ UNCHANGED <<parserVars, modeVars>>

\* A click on a playlist item, a number key, next or previous.
SwitchToSong(index) ==
    /\ SetPlayer(switchToSong(Player, index))
    /\ lastOp' = Op("switchToSong", index, 0)
    /\ UNCHANGED <<parserVars, modeVars>>

\* Lines 1665-1706: seek and seekTo: setCurrentTime at a time in 0..maxDuration;
\* b tells whether the time is before the last one the cursor saw.
SeekTo(t) ==
    /\ currentSongIndex >= 0
    /\ t <= songs[currentSongIndex + 1].duration
    /\ SetPlayer(setCurrentTime(Player, t))
    /\ lastOp' = Op("seekTo", t, IF t < lastLyricSearchTime THEN 1 ELSE 0)
    /\ UNCHANGED <<parserVars, modeVars>>

\* The lyric navigation keys: jumpToLyric(lyricIndex).
JumpToLyric(lyricIndex) ==
    /\ currentSongIndex >= 0
    /\ lyricIndex < Len(songs[currentSongIndex + 1].lyrics)
    /\ SetPlayer(jumpToLyric(Player, lyricIndex))
    /\ lastOp' = Op("jumpToLyric", lyricIndex, 0)
    /\ UNCHANGED <<parserVars, modeVars>>

(***************************************************************************)
(* The player: files, playlist operations, track switches and seeks.       *)
(***************************************************************************)
Init ==
    /\ PlayerIs(ConstructedPlayer)
    /\ ParserIdle
    /\ ModesIdle
    /\ lastOp = Op("constructor", 0, 0)

Next ==
    \/ \E file \in FilePool : LrcFileLoaded(file)
    \/ \E data \in ImportPool : ImportPlaylist(data)
    \/ \E index \in ValidIndices : RemoveSong(index)
    \/ \E dragIndex, dropIndex \in ValidIndices : \E isTop \in BOOLEAN :
           DropSong(dragIndex, dropIndex, isTop)
    \/ SortPlaylist
    \/ ClearPlaylist
    \/ \E index \in ValidIndices : SwitchToSong(index)
    \/ \E t \in 0..MaxTime : SeekTo(t)
    \/ \E lyricIndex \in 0..(MaxLines - 1) : JumpToLyric(lyricIndex)

Spec == Init /\ [][Next]_vars

(***************************************************************************)
(* The cursor on one track: a timeline sorted by time without equal times, *)
(* added to the empty player, then seeks and jumps.                        *)
(***************************************************************************)

\* The timelines of 1..MaxLines lines with strictly increasing times in 0..MaxTime.
SortedTimes ==
    UNION { {g \in [1..n -> 0..MaxTime] : \A i, j \in 1..n : i < j => g[i] < g[j]} :
                n \in 1..MaxLines }

SortedTimelines ==
    { [i \in DOMAIN g |-> [time |-> g[i], text |-> <<"x">>]] : g \in SortedTimes }

InitCursor ==
    /\ \E lyrics \in SortedTimelines :
           LET p == addSong(ConstructedPlayer,
                            [name |-> <<"a">>, lyrics |-> lyrics,
                             duration |-> lyrics[Len(lyrics)].time + 500])
           IN  PlayerIs(p)
    /\ ParserIdle
    /\ ModesIdle
    /\ lastOp = Op("addSong", 0, 0)

NextCursor ==
    \/ \E t \in 0..MaxTime : SeekTo(t)
    \/ \E lyricIndex \in 0..(MaxLines - 1) : JumpToLyric(lyricIndex)

SpecCursor == InitCursor /\ [][NextCursor]_vars

(***************************************************************************)
(* Properties of the cursor.                                               *)
(***************************************************************************)

\* The timeline of the current track (empty when no track is current).
CurrentLyrics ==
    IF currentSongIndex >= 0 /\ currentSongIndex < Len(songs)
    THEN songs[currentSongIndex + 1].lyrics
    ELSE <<>>

\* Line i (0-based) is the line a time t falls on: t has reached it and has
\* not reached the line after it.
FallsOn(lyrics, t, i) ==
    /\ t >= lyrics[i + 1].time
    /\ (i = Len(lyrics) - 1 \/ t < lyrics[i + 2].time)

\* C1: on one track whose timeline is sorted ascending without equal times,
\* after any sequence of resolutions at arbitrary times (forward skips over
\* several lines and backward seeks included) the resolved index is -1 when
\* currentTime is before the first line, and otherwise it is the unique index i
\* with currentTime >= lines[i].time and (i last or currentTime < lines[i+1].time).
C1_ResolvedIndexIsTheLineOfTheTime ==
    LET lyrics == CurrentLyrics IN
    /\ Len(lyrics) > 0
    /\ IF currentTime < lyrics[1].time
       THEN currentLyricIndex = -1
       ELSE /\ currentLyricIndex \in 0..(Len(lyrics) - 1)
            /\ \A i \in 0..(Len(lyrics) - 1) :
                   FallsOn(lyrics, currentTime, i) <=> i = currentLyricIndex

\* A backward seek on a three-line timeline that lands on the middle line.
C1_Witness ==
    /\ lastOp.op = "seekTo"
    /\ lastOp.b = 1
    /\ Len(CurrentLyrics) = 3
    /\ currentLyricIndex = 1
    /\ lastLyricSearchIndex = 1

\* C2: a resolution at a time t0 below the time t1 of the resolution before it,
\* on the same track, gives the index a resolution at t0 with no memoized state
\* (scan start 0) gives.
C2_BackwardSeekEqualsFreshResolution ==
    (lastOp.op = "seekTo" /\ lastOp.b = 1 /\ Len(CurrentLyrics) > 0)
        => currentLyricIndex = ActiveIndex(CurrentLyrics, currentTime, 0)

\* A backward seek in the catalog model that lands on a line after the first.
C2_Witness ==
    /\ lastOp.op = "seekTo"
    /\ lastOp.b = 1
    /\ Len(songs) >= 2
    /\ currentLyricIndex >= 1
    /\ currentTime < MaxTime

\* C3: when the current track changes (switchToSong) the memoized state of the
\* cursor is reset to index 0: the first resolution on the new track, and every
\* later one, equals the resolution with no memoized state, whatever the
\* timeline and the last resolved index of the track before were.
C3_SwitchResetsTheCursor ==
    (lastOp.op \in {"switchToSong", "seekTo"} /\ Len(CurrentLyrics) > 0)
        => currentLyricIndex = ActiveIndex(CurrentLyrics, currentTime, 0)

(***************************************************************************)
(* Properties of the catalog.                                              *)
(***************************************************************************)

Count(seq, x) == Cardinality({i \in DOMAIN seq : seq[i] = x})

\* C10: for every valid (fromIndex, toIndex), reorderSongs keeps the multiset of
\* tracks, puts the moved track at toIndex, changes nothing when the indices are
\* equal, and the track at currentSongIndex before the move is the track at
\* currentSongIndex after it (no current track stays no current track).
C10_ReorderKeepsTracksAndCurrent ==
    \A fromIndex, toIndex \in ValidIndices :
        LET q == reorderSongs(Player, fromIndex, toIndex) IN
        /\ Len(q.songs) = Len(songs)
        /\ \A i \in DOMAIN songs : Count(q.songs, songs[i]) = Count(songs, songs[i])
        /\ q.songs[toIndex + 1] = songs[fromIndex + 1]
        /\ (fromIndex = toIndex => q = Player)
        /\ IF currentSongIndex >= 0
           THEN /\ q.currentSongIndex \in ValidIndices
                /\ q.songs[q.currentSongIndex + 1] = songs[currentSongIndex + 1]
           ELSE q.currentSongIndex = -1

\* A move in a catalog of three tracks that passed over the current track.
C10_Witness ==
    /\ lastOp.op = "reorderSongs"
    /\ Len(songs) = 3
    /\ lastOp.a /= lastOp.b
    /\ currentSongIndex >= 0
    /\ currentSongIndex /= lastOp.b
    /\ currentSongIndex >= Min(lastOp.a, lastOp.b)
    /\ currentSongIndex <= IF lastOp.a > lastOp.b THEN lastOp.a ELSE lastOp.b

(***************************************************************************)
(* The catalog methods called directly, with any index: reorderSongs and   *)
(* removeSong as a caller other than the playlist items may call them.     *)
(***************************************************************************)

\* The indices of a direct call: one below and one above every catalog.
CallIndices == (-1)..MaxSongs

\* No element of songs is the undefined element (a handler that reads the name
\* of an undefined element throws).
Intact == \A i \in 1..Len(songs) : songs[i] # Undefined

\* Lines 1277-1302: reorderSongs(fromIndex, toIndex) called directly.
ReorderSongs(fromIndex, toIndex) ==
    /\ SetPlayer(reorderSongs(Player, fromIndex, toIndex))
    /\ lastOp' = Op("reorderSongs", fromIndex, toIndex)
    /\ UNCHANGED <<parserVars, modeVars>>

NextCalls ==
    \/ \E file \in FilePool : Intact /\ LrcFileLoaded(file)
    \/ \E index \in ValidIndices : Intact /\ SwitchToSong(index)
    \/ \E index \in CallIndices : Intact /\ RemoveSong(index)
    \/ \E fromIndex, toIndex \in CallIndices : Intact /\ ReorderSongs(fromIndex, toIndex)

SpecCalls == Init /\ [][NextCalls]_vars

\* C11: reorderSongs and removeSong called with an index outside the catalog
\* change nothing: songs and currentSongIndex are as before the call.
C11_OutOfRangeCallsChangeNothing ==
    [][ ( \/ /\ lastOp'.op = "reorderSongs"
             /\ (lastOp'.a \notin ValidIndices \/ lastOp'.b \notin ValidIndices)
          \/ /\ lastOp'.op = "removeSong"
             /\ lastOp'.a \notin ValidIndices )
        => UNCHANGED <<songs, currentSongIndex>> ]_vars

\* C13: the catalog never holds two tracks of the same name, after any sequence
\* of addSong, importPlaylist, removeSong, reorderSongs and sortPlaylist, and
\* addSong of a name that is present leaves songs as it is.
C13_NamesUnique ==
    /\ \A i, j \in 1..Len(songs) : songs[i].name = songs[j].name => i = j
    /\ \A i \in 1..Len(songs) :
           addSong(Player, [name |-> songs[i].name, lyrics |-> <<>>,
                            duration |-> 0]).songs = songs

\* A playlist whose entries hold the name "e" twice has been imported: the
\* second entry was rejected.
C13_Witness ==
    /\ lastOp.op = "importPlaylist"
    /\ Len(songs) = 1
    /\ songs[1].name = <<"e">>
    /\ \E data \in ImportPool :
           Cardinality({i \in 1..Len(data.songs) :
                            ValidEntry(data.songs[i]) /\ data.songs[i].name = <<"e">>}) = 2

(***************************************************************************)
(* The sort on its own: catalogs loaded from files whose names have equal  *)
(* numbers, numbers whose text order is not their numeric order, no number *)
(* and no character at all; then drops, track switches and sorts.          *)
(***************************************************************************)

\* The names of the files of the sort model, without the extension. The empty
\* name is the name of the file ".lrc".
SortNames ==
    { <<"2">>, <<"1", "0">>, <<"1", "b">>, <<"0", "1", "a">>, <<"a">>, <<"b">>, <<>> }

\* The file of a name: one line at time 0.
SortFile(name) == [name |-> name \o LrcExt, content |-> Line(0, "a")]

\* The player after the files of the sequence have been read, in order.
RECURSIVE LoadedPlayer(_, _)
LoadedPlayer(p, names) ==
    IF Len(names) = 0 THEN p
    ELSE LoadedPlayer(lrcFileLoaded(p, SortFile(names[1])), Tail(names))

\* The sequences of 1..MaxSongs different names.
NameSeqs ==
    { ns \in SeqsUpTo(SortNames, MaxSongs) : \A i, j \in 1..Len(ns) : ns[i] = ns[j] => i = j }

InitSort ==
    /\ \E ns \in NameSeqs :
           LET p == LoadedPlayer(ConstructedPlayer, ns)
           IN  PlayerIs(p)
    /\ ParserIdle
    /\ ModesIdle
    /\ lastOp = Op("lrcFileLoaded", 0, 0)

NextSort ==
    \/ SortPlaylist
    \/ \E index \in ValidIndices : SwitchToSong(index)
    \/ \E dragIndex, dropIndex \in ValidIndices : \E isTop \in BOOLEAN :
           DropSong(dragIndex, dropIndex, isTop)

SpecSort == InitSort /\ [][NextSort]_vars

\* A name starts with a digit.
HasNumber(name) == Len(name) > 0 /\ IsDigit(name[1])

\* The number a name starts with.
LeadingNumber(name) == ParseInt(DigitRun(name, 1))

\* The track a stands rightly before the track b.
InOrder(a, b) ==
    IF HasNumber(a.name) /\ HasNumber(b.name)
    THEN \/ LeadingNumber(a.name) < LeadingNumber(b.name)
         \/ /\ LeadingNumber(a.name) = LeadingNumber(b.name)
            /\ LocaleCompare(a.name, b.name) <= 0
    ELSE IF HasNumber(a.name) THEN TRUE
    ELSE IF HasNumber(b.name) THEN FALSE
    ELSE LocaleCompare(a.name, b.name) <= 0

\* C14: after sortPlaylist every track with a leading number stands before every
\* track without one; the tracks with a number are in ascending order of the
\* number, equal numbers in the order of the name comparison; the tracks
\* without a number are in the order of the name comparison.
C14_SortedByNumberThenName ==
    LET sorted == sortPlaylist(Player).songs IN
    /\ Len(sorted) = Len(songs)
    /\ \A i, j \in 1..Len(sorted) : i < j => InOrder(sorted[i], sorted[j])
    /\ lastOp.op = "sortPlaylist" =>
           \A i, j \in 1..Len(songs) : i < j => InOrder(songs[i], songs[j])

\* A sort has changed the order of three tracks, of which the first two have
\* the same number and the last has none.
C14_Witness ==
    /\ lastOp.op = "sortPlaylist"
    /\ lastOp.b = 1
    /\ Len(songs) = 3
    /\ HasNumber(songs[1].name)
    /\ HasNumber(songs[2].name)
    /\ LeadingNumber(songs[1].name) = LeadingNumber(songs[2].name)
    /\ ~HasNumber(songs[3].name)

\* C15: sortPlaylist keeps the current track: the track at currentSongIndex
\* after the sort has the name of the track at currentSongIndex before it, and
\* currentSongIndex stays -1 when no track was selected.
C15_SortKeepsCurrentTrack ==
    LET q == sortPlaylist(Player) IN
    IF currentSongIndex >= 0
    THEN /\ q.currentSongIndex \in 0..(Len(q.songs) - 1)
         /\ q.songs[q.currentSongIndex + 1].name = songs[currentSongIndex + 1].name
    ELSE q.currentSongIndex = -1

(***************************************************************************)
(* The mode functions on their own: every track a catalog can hold, one    *)
(* call.                                                                   *)
(***************************************************************************)

\* The values of song.userMode: addSong gives every track one.
UserModes == {"auto", "lyrics", "audio", "sync"}

\* An audio element that has loaded.
ReadyAudio == [NewAudio EXCEPT !.ready = TRUE]

\* The tracks of the model: with or without lyric lines, with every user mode,
\* without an audio file, or with one and no element yet, a released element
\* (null), a new element or a loaded one.
ModeSongs ==
    LET plain == { [name |-> <<"a">>, lyrics |-> lyrics, duration |-> 500, userMode |-> um] :
                       lyrics \in {<<>>, <<[time |-> 0, text |-> <<"a">>]>>}, um \in UserModes }
        filed == { WithField(song, "audioFile", TRUE) : song \in plain }
    IN  plain \cup filed
              \cup { WithField(song, "audioElement", e) :
                         song \in filed, e \in {NullAudio, NewAudio, ReadyAudio} }

InitModes ==
    /\ PlayerIs(ConstructedPlayer)
    /\ ParserIdle
    /\ modeSong \in ModeSongs
    /\ modeResult = NoModeCall
    /\ callArgs = <<>>
    /\ callResult = NoModeCall
    /\ scanWork = NoScan
    /\ lastOp = Op("constructor", 0, 0)

\* A call of fn(modeSong) that returns value.
ModeCall(fn, value) ==
    /\ modeResult.fn = "none"
    /\ modeResult' = [fn |-> fn, value |-> value]
    /\ lastOp' = Op(fn, 0, 0)
    /\ UNCHANGED <<playerVars, parserVars, modeSong, callArgs, callResult, scanWork>>

CallGetAvailableModes == ModeCall("getAvailableModes", getAvailableModes(modeSong))

CallGetEffectiveMode == ModeCall("getEffectiveMode", <<getEffectiveMode(modeSong)>>)

CallGetAutoDetectedMode == ModeCall("getAutoDetectedMode", <<getAutoDetectedMode(modeSong)>>)

NextModes ==
    \/ CallGetAvailableModes
    \/ CallGetEffectiveMode
    \/ CallGetAutoDetectedMode

SpecModes == InitModes /\ [][NextModes]_vars

\* The availability of a mode as the specification gives it: lyrics with at
\* least one line, audio with an audio file, sync with both.
StatedAvailable(song, mode) ==
    CASE mode = "lyrics" -> Len(song.lyrics) > 0
      [] mode = "audio" -> "audioFile" \in DOMAIN song
      [] mode = "sync" -> Len(song.lyrics) > 0 /\ "audioFile" \in DOMAIN song
      [] OTHER -> FALSE

\* The automatic mode as the specification gives it.
StatedAutoMode(song) ==
    IF Len(song.lyrics) > 0 /\ "audioFile" \in DOMAIN song THEN "sync"
    ELSE IF "audioFile" \in DOMAIN song THEN "audio"
    ELSE "lyrics"

\* C16: getAvailableModes holds 'lyrics' iff the track has at least one line,
\* 'audio' iff the track has an audio file (with or without an audio element),
\* and 'sync' iff both.
C16_AvailableModes ==
    modeResult.fn = "getAvailableModes" =>
        \A mode \in {"lyrics", "audio", "sync"} :
            Includes(modeResult.value, mode) <=> StatedAvailable(modeSong, mode)

\* C17: with a user mode of lyrics, audio or sync, getEffectiveMode returns the
\* user mode when that mode is available for the track, and the automatic mode
\* when it is not.
C17_UserModeWhenAvailable ==
    (modeResult.fn = "getEffectiveMode" /\ modeSong.userMode # "auto") =>
        modeResult.value = << IF StatedAvailable(modeSong, modeSong.userMode)
                              THEN modeSong.userMode
                              ELSE StatedAutoMode(modeSong) >>

\* C18: with the user mode 'auto' the effective mode is 'sync' for a track with
\* lyrics and audio, 'audio' for a track with audio only, and 'lyrics' otherwise.
C18_AutoMode ==
    (modeResult.fn = "getEffectiveMode" /\ modeSong.userMode = "auto") =>
        modeResult.value = <<StatedAutoMode(modeSong)>>

\* The effective mode of a track with an audio file, without lines and with the
\* user mode 'auto' has been asked for.
C18_Witness ==
    /\ modeResult.fn = "getEffectiveMode"
    /\ modeSong.userMode = "auto"
    /\ "audioFile" \in DOMAIN modeSong
    /\ Len(modeSong.lyrics) = 0
    /\ modeResult.value = <<"audio">>

\* C36: for every track that has an available mode, the mode getEffectiveMode
\* returns is one of the modes getAvailableModes returns for that track.
C36_EffectiveModeIsAvailable ==
    (modeResult.fn = "getEffectiveMode" /\ Len(getAvailableModes(modeSong)) > 0) =>
        Includes(getAvailableModes(modeSong), modeResult.value[1])

(***************************************************************************)
(* Playback: two tracks loaded from lyric files, an audio file for the     *)
(* first; the user plays, pauses, selects tracks, changes modes, removes   *)
(* tracks and clears the playlist, and the browser runs timers, animation  *)
(* frames and the events of the audio elements in any order.               *)
(***************************************************************************)
MaxFrames == 2     \* animation frames pending at a time
MaxTimers == 1     \* timers pending at a time

\* The lyric files of the playback model: lines at 0 and 1, and a line at 0.
PlayFiles ==
    << [name |-> <<"1", "a">> \o LrcExt,
        content |-> JoinLines(<<Line(0, "a"), Line(1, "b")>>)],
       [name |-> <<"2", "b">> \o LrcExt, content |-> Line(0, "c")] >>

\* The names of the tracks an audio file of the model matches (findMatchingSong).
AudioNames == {<<"1", "a">>}

RECURSIVE LoadedFiles(_, _)
LoadedFiles(p, files) ==
    IF Len(files) = 0 THEN p
    ELSE LoadedFiles(lrcFileLoaded(p, files[1]), Tail(files))

\* The clock and the audio positions are followed to the last line of the first
\* track.
PlayEnd ==
    LET lyrics == LoadedFiles(ConstructedPlayer, PlayFiles).songs[1].lyrics
    IN  lyrics[Len(lyrics)].time

InitPlay ==
    /\ PlayerIs(LoadedFiles(ConstructedPlayer, PlayFiles))
    /\ ParserIdle
    /\ ModesIdle
    /\ lastOp = Op("lrcFileLoaded", 0, 0)

\* The pending timers and frames stay within the bounds of the model.
Bounded(p) ==
    /\ p.frames <= MaxFrames
    /\ p.timers.play + Cardinality(p.timers.resume) <= MaxTimers

\* The handler result p becomes the state, the handler is recorded.
Does(p, name, a, b) ==
    /\ Bounded(p)
    /\ SetPlayer(p)
    /\ lastOp' = Op(name, a, b)
    /\ UNCHANGED <<parserVars, modeVars>>

\* The play button or the space key: togglePlay().
TogglePlay(update) ==
    Does(togglePlay(Player, update), "togglePlay", IF isPlaying THEN 1 ELSE 0, 0)

\* Lines 767-775: a digit key: switchToSong(num - 1) and a timer for play().
SwitchAndPlay(index) ==
    Does(WithPlayTimer(switchToSong(Player, index)), "switchToSong", index, 1)

\* Lines 1130-1139: the mode selector of the track at songIndex is set to newMode;
\* b tells whether the change is applied to the track that plays.
ChangeSongMode(songIndex, newMode) ==
    /\ newMode \in SelectorModes(songs[songIndex + 1])
    /\ newMode # UserMode(songs[songIndex + 1])
    /\ Does(changeSongMode(Player, songIndex, newMode), "changeSongMode", songIndex,
            IF currentSongIndex = songIndex /\ isPlaying THEN 1 ELSE 0)

\* loadAudioFiles: an audio file that matches the track at position k.
AudioFileMatched(k) ==
    /\ songs[k].name \in AudioNames
    /\ ~HasAudioFile(songs[k])
    /\ Does(audioFileMatched(Player, k), "loadAudioFiles", k - 1, 0)

\* A timer of 100 ms that calls play() fires.
PlayTimerFired(update) ==
    /\ timers.play > 0
    /\ Does(play([Player EXCEPT !.timers.play = @ - 1], update), "playTimer", 0, 0)

\* Lines 2675-2678: the timer of applyModeChange fires; a tells the time it
\* captured and b whether the track of the mode change is the current one.
ResumeTimerFired(timer, update) ==
    /\ timer \in timers.resume
    /\ Does(play(setCurrentTime([Player EXCEPT !.timers.resume = @ \ {timer}],
                                timer.time), update),
            "resumeTimer", timer.time,
            IF HasCurrentSong(Player) /\ songs[currentSongIndex + 1].name = timer.song
            THEN 1 ELSE 0)

\* A pending animation frame runs animate(), passed units of time after the
\* clock was last read: the frame of animationId (ofId) or another one.
AnimationFrame(ofId, passed, update) ==
    /\ IF ofId THEN animationId ELSE frames > (IF animationId THEN 1 ELSE 0)
    /\ elapsed + passed <= PlayEnd
    /\ Does(ClockKept(animate([Player EXCEPT !.frames = @ - 1,
                                             !.animationId = IF ofId THEN FALSE ELSE @,
                                             !.elapsed = @ + passed],
                              update)),
            "animate", IF audioMode THEN 1 ELSE 0, passed)

\* The element of the track at position k has loaded (loadedmetadata, canplay).
AudioLoaded(k, update) ==
    /\ HasAudioElement(songs[k])
    /\ ~AudioElementOf(songs[k]).ready
    /\ Does(audioLoaded(Player, k, update), "canplay", k - 1, 0)

\* The element of the track at position k plays on and fires timeupdate.
AudioTimeUpdate(k, update) ==
    /\ HasAudioElement(songs[k])
    /\ AudioElementOf(songs[k]).playing
    /\ AudioElementOf(songs[k]).pos < PlayEnd
    /\ Does(timeUpdated(Player, k, AudioElementOf(songs[k]).pos + 1, update),
            "timeupdate", k - 1, 0)

NextPlay ==
    \/ \E update \in BOOLEAN : TogglePlay(update)
    \/ \E index \in ValidIndices : SwitchAndPlay(index)
    \/ \E index \in ValidIndices : SwitchToSong(index)
    \/ \E index \in ValidIndices : RemoveSong(index)
    \/ \E songIndex \in ValidIndices : \E newMode \in UserModes :
           ChangeSongMode(songIndex, newMode)
    \/ \E k \in 1..Len(songs) : AudioFileMatched(k)
    \/ \E update \in BOOLEAN : PlayTimerFired(update)
    \/ \E timer \in timers.resume : \E update \in BOOLEAN : ResumeTimerFired(timer, update)
    \/ \E ofId, update \in BOOLEAN : \E passed \in 0..1 :
           AnimationFrame(ofId, passed, update)
    \/ \E k \in 1..Len(songs) : \E update \in BOOLEAN : AudioLoaded(k, update)
    \/ \E k \in 1..Len(songs) : \E update \in BOOLEAN : AudioTimeUpdate(k, update)
    \/ ClearPlaylist

SpecPlay == InitPlay /\ [][NextPlay]_vars

(***************************************************************************)
(* C12: removing a track while the player plays.                           *)
(***************************************************************************)

\* No time source of the player p runs: it does not play, no frame is held by
\* animationId and no audio element of a track plays.
Stopped(p) ==
    /\ ~p.isPlaying
    /\ ~p.animationId
    /\ \A k \in 1..Len(p.songs) :
           HasAudioElement(p.songs[k]) => ~AudioElementOf(p.songs[k]).playing

\* C12: in every state of the playback model and for every index i of the
\* playlist, removeSong(i) with i different from currentSongIndex leaves the
\* track that was current at currentSongIndex, and removeSong(currentSongIndex)
\* leaves currentSongIndex = -1 with playback stopped.
C12_RemoveKeepsCurrentOrStops ==
    \A i \in ValidIndices :
        LET q == removeSong(Player, i) IN
        IF i = currentSongIndex
        THEN q.currentSongIndex = -1 /\ Stopped(q)
        ELSE HasCurrentSong(Player) =>
                 /\ HasCurrentSong(q)
                 /\ q.songs[q.currentSongIndex + 1].name = songs[currentSongIndex + 1].name
                 /\ q.songs[q.currentSongIndex + 1].lyrics = songs[currentSongIndex + 1].lyrics

\* The current track was removed while it played, another track remains.
C12_Witness ==
    /\ lastOp.op = "removeSong"
    /\ lastOp.b = 2
    /\ Len(songs) >= 1
    /\ currentSongIndex = -1
    /\ ~isPlaying


(***************************************************************************)
(* C19: a mode change applied to the track that plays.                     *)
(***************************************************************************)

\* The time source of the player p is the one of the effective mode of its
\* current track: the element of the track for 'sync' and 'audio', the
\* free-running clock without an element for 'lyrics'.
BoundToEffectiveMode(p) ==
    LET song == p.songs[p.currentSongIndex + 1] IN
    IF getEffectiveMode(song) \in {"sync", "audio"}
    THEN p.audioMode /\ p.audioElement = ElementOf(song.name)
    ELSE ~p.audioMode /\ p.audioElement = NoElement

\* A mode change applied to the track that plays leaves the player stopped,
\* bound to the time source of the new effective mode, on the same track, with
\* a resume pending that holds the time captured.
AppliedStep ==
    (lastOp'.op = "changeSongMode" /\ lastOp'.b = 1) =>
        /\ Stopped(Player')
        /\ currentSongIndex' = currentSongIndex
        /\ BoundToEffectiveMode(Player')
        /\ timers'.resume = timers.resume \cup
               {[time |-> currentTime, song |-> songs[currentSongIndex + 1].name]}

\* The resume of a mode change plays the track of the mode change at the time
\* captured (an element that has not loaded plays once it has).
ResumeStep ==
    lastOp'.op = "resumeTimer" =>
        /\ lastOp'.b = 1
        /\ currentTime' = lastOp'.a
        /\ isPlaying' \/ (audioMode' /\ GlobalAudio(Player').waiting)

\* A mode change while the player does not play the track sets no resume and
\* starts nothing.
IdleStep ==
    (lastOp'.op = "changeSongMode" /\ lastOp'.b = 0) =>
        /\ timers'.resume = timers.resume
        /\ isPlaying' = isPlaying
        /\ currentTime' = currentTime

\* C19: a mode change applied to the track that plays captures currentTime,
\* stops the active time source, rebinds the time source for the new effective
\* mode and then resumes that same track at the time captured; a mode change
\* while playback is not active resumes nothing.
C19_ModeChangeSteps == [][AppliedStep /\ ResumeStep /\ IdleStep]_vars


(***************************************************************************)
(* C20: the time sources that write currentTime.                           *)
(***************************************************************************)

\* A callback of the free-running animation loop is pending while the player
\* plays: when it runs, animate() writes currentTime.
LoopActive == isPlaying /\ frames > 0

\* The element of this.audioElement plays while the player plays in an audio
\* mode: its timeupdate listener writes currentTime.
AudioActive ==
    /\ isPlaying
    /\ audioMode
    /\ GlobalOwner(Player) > 0
    /\ GlobalAudio(Player).playing

\* C20: at every moment at most one time source updates currentTime: the
\* animation loop and the audio-position callback are never both active, and
\* after switchToSong and after a mode change applied to the playing track the
\* previous source is stopped: no animation frame is pending, no element plays.
C20_OneTimeSource ==
    /\ ~(LoopActive /\ AudioActive)
    /\ (lastOp.op = "switchToSong" \/ (lastOp.op = "changeSongMode" /\ lastOp.b = 1)) =>
           (frames = 0 /\ Stopped(Player))


(***************************************************************************)
(* Functions called on their own: one call with arguments drawn from a     *)
(* set.                                                                    *)
(***************************************************************************)

\* A call of fn(callArgs) that returns value.
FunctionCall(fn, value) ==
    /\ callResult.fn = "none"
    /\ callResult' = [fn |-> fn, value |-> <<value>>]
    /\ lastOp' = Op(fn, 0, 0)
    /\ UNCHANGED <<playerVars, parserVars, modeSong, modeResult, callArgs, scanWork>>

Called(fn) == callResult.fn = fn

(***************************************************************************)
(* levenshteinDistance on its own: every pair of words of up to MaxWord    *)
(* characters over a and b, and the pair of the test of the repository.    *)
(***************************************************************************)
MaxWord == 3

Words == {<<>>} \cup SeqsUpTo({"a", "b"}, MaxWord)

Kitten == <<"k", "i", "t", "t", "e", "n">>
Sitting == <<"s", "i", "t", "t", "i", "n", "g">>

InitLev ==
    /\ PlayerIs(ConstructedPlayer)
    /\ ParserIdle
    /\ modeSong = NullAudio
    /\ modeResult = NoModeCall
    /\ callArgs \in (Words \X Words) \cup {<<Kitten, Sitting>>, <<Sitting, Kitten>>}
    /\ callResult = NoModeCall
    /\ scanWork = NoScan
    /\ lastOp = Op("constructor", 0, 0)

CallLevenshteinDistance ==
    FunctionCall("levenshteinDistance", levenshteinDistance(callArgs[1], callArgs[2]))

CallCalculateSimilarity ==
    FunctionCall("calculateSimilarity", calculateSimilarity(callArgs[1], callArgs[2]))

NextLev == CallLevenshteinDistance \/ CallCalculateSimilarity

SpecLev == InitLev /\ [][NextLev]_vars

\* The word s without its character at position k.
Without(s, k) == SubSeq(s, 1, k - 1) \o SubSeq(s, k + 1, Len(s))

\* t is s after one edit: a substitution, an insertion or a deletion of one
\* character.
OneEdit(s, t) ==
    \/ Len(s) = Len(t) /\ Cardinality({k \in 1..Len(s) : s[k] # t[k]}) = 1
    \/ Len(t) = Len(s) + 1 /\ \E k \in 1..Len(t) : Without(t, k) = s
    \/ Len(s) = Len(t) + 1 /\ \E k \in 1..Len(s) : Without(s, k) = t

\* The words of Words that at most k edits make of s.
RECURSIVE Ball(_, _)
Ball(s, k) ==
    IF k = 0 THEN {s}
    ELSE LET inner == Ball(s, k - 1)
         IN  inner \cup {t \in Words : \E u \in inner : OneEdit(u, t)}

\* The classic Levenshtein distance of two words of Words: the least number of
\* edits that make t of s (never more than MaxWord).
EditDistance(s, t) == CHOOSE k \in 0..MaxWord : t \in Ball(s, k) /\ \A j \in 0..(k - 1) : t \notin Ball(s, j)

\* C24: levenshteinDistance(a, b) is the classic Levenshtein distance, the
\* least number of substitutions, insertions and deletions of one character
\* that make b of a, for every pair of words; it is 3 for 'kitten' and
\* 'sitting'.
C24_LevenshteinIsClassic ==
    Called("levenshteinDistance") =>
        IF callArgs[1] \in Words /\ callArgs[2] \in Words
        THEN callResult.value = <<EditDistance(callArgs[1], callArgs[2])>>
        ELSE callResult.value = <<3>>

\* The distance of 'kitten' and 'sitting' has been computed.
C24_Witness ==
    /\ Called("levenshteinDistance")
    /\ callArgs = <<Kitten, Sitting>>
    /\ callResult.value = <<3>>


(***************************************************************************)
(* The matcher on its own: a catalog loaded from lyric files, one audio    *)
(* file. The names hold an exact match behind a track with the same base   *)
(* name, names that are equal once normalized, names at equal distances    *)
(* and names too far from every file.                                      *)
(***************************************************************************)
MatchNames ==
    { <<"a", "b", ".", "x">>, <<"a", "b", ".", "y">>, <<"a", "b", "c", "d">>,
      <<"a", "b", "c", "e">>, <<"1", "-", "a", "b", "c">>, <<"a", "b", "c">>,
      <<"x", "y">>, <<"1">> }

AudioExt == <<".", "m", "p", "3">>

\* The names of the audio files, without the extension.
AudioFileNames ==
    { <<"a", "b", ".", "y">>, <<"a", "b", "c", "f">>, <<"a", "b", "c">>,
      <<"A", "_", "B", "C">>, <<"1", "a", "b", "d">>, <<"z", "z">>, <<"2">> }

MatchCatalogs ==
    { ns \in SeqsUpTo(MatchNames, MaxSongs) : \A i, j \in 1..Len(ns) : ns[i] = ns[j] => i = j }

InitMatch ==
    /\ \E ns \in MatchCatalogs : PlayerIs(LoadedPlayer(ConstructedPlayer, ns))
    /\ ParserIdle
    /\ modeSong = NullAudio
    /\ modeResult = NoModeCall
    /\ \E name \in AudioFileNames : callArgs = <<name \o AudioExt>>
    /\ callResult = NoModeCall
    /\ scanWork = NoScan
    /\ lastOp = Op("lrcFileLoaded", 0, 0)

\* Line 843 of loadAudioFiles: the name the matcher is called with.
fileName == StripExtension(callArgs[1])

CallFindMatchingSong == FunctionCall("findMatchingSong", findMatchingSong(songs, fileName))

CallFindBestMatch == FunctionCall("findBestMatch", findBestMatch(songs, fileName))

NextMatch == CallFindMatchingSong \/ CallFindBestMatch

SpecMatch == InitMatch /\ [][NextMatch]_vars

\* The final score of the track at position k (1-based) for the file.
ScoreOf(k) == calculateMatchScore(songs[k].name, fileName)

\* The position of the track returned, 0 for none.
Matched(fn) == IF Called(fn) THEN callResult.value[1] ELSE 0

\* C21: whenever the catalog holds a track whose name equals the name of the
\* file with its extension stripped, findMatchingSong returns that track,
\* whatever the other tracks score.
C21_ExactMatchWins ==
    (Called("findMatchingSong") /\ \E k \in 1..Len(songs) : songs[k].name = fileName) =>
        /\ Matched("findMatchingSong") \in 1..Len(songs)
        /\ songs[Matched("findMatchingSong")].name = fileName

\* The track of the exact name was returned, behind a track of another name
\* that scores 1 as well.
C21_Witness ==
    /\ Called("findMatchingSong")
    /\ Matched("findMatchingSong") > 1
    /\ songs[Matched("findMatchingSong")].name = fileName
    /\ \E k \in 1..(Matched("findMatchingSong") - 1) : FracEqual(ScoreOf(k), Frac(1, 1))

\* C22: findBestMatch returns a track whose final score is at least 0.7 and
\* the highest of the catalog, and returns none exactly when every track
\* scores below 0.7.
C22_BestAboveThreshold ==
    Called("findBestMatch") =>
        IF Matched("findBestMatch") = 0
        THEN \A k \in 1..Len(songs) : FracLess(ScoreOf(k), Frac(7, 10))
        ELSE /\ Matched("findBestMatch") \in 1..Len(songs)
             /\ ~FracLess(ScoreOf(Matched("findBestMatch")), Frac(7, 10))
             /\ \A k \in 1..Len(songs) :
                    ~FracLess(ScoreOf(Matched("findBestMatch")), ScoreOf(k))

\* None was returned although a track scores above 0, and at least 0.5.
C22_Witness ==
    /\ Called("findBestMatch")
    /\ Matched("findBestMatch") = 0
    /\ \E k \in 1..Len(songs) : ~FracLess(ScoreOf(k), Frac(1, 2))

\* C23: of several tracks that share the highest final score findBestMatch
\* returns the first in catalog order: no track before the one returned scores
\* as much.
C23_TiesByCatalogOrder ==
    (Called("findBestMatch") /\ Matched("findBestMatch") > 0) =>
        \A k \in 1..(Matched("findBestMatch") - 1) :
            FracLess(ScoreOf(k), ScoreOf(Matched("findBestMatch")))

\* The track returned shares its score with a track behind it.
C23_Witness ==
    /\ Called("findBestMatch")
    /\ Matched("findBestMatch") > 0
    /\ \E k \in (Matched("findBestMatch") + 1)..Len(songs) :
           FracEqual(ScoreOf(k), ScoreOf(Matched("findBestMatch")))

(***************************************************************************)
(* Playlist files: exportPlaylist, JSON and importPlaylist. A playlist     *)
(* file is read, the catalog is exported and the export is read back.      *)
(***************************************************************************)

\* JSON.stringify of a string (line 2226): quotes around it and a backslash
\* before a quote and before a backslash.
RECURSIVE JsonEscape(_)
JsonEscape(s) ==
    IF Len(s) = 0 THEN <<>>
    ELSE (IF Head(s) \in {"\"", "\\"} THEN <<"\\", Head(s)>> ELSE <<Head(s)>>)
         \o JsonEscape(Tail(s))

JsonString(s) == <<"\"">> \o JsonEscape(s) \o <<"\"">>

\* JSON.parse of the text of a string (line 2245).
RECURSIVE JsonUnescape(_)
JsonUnescape(t) ==
    IF Len(t) = 0 THEN <<>>
    ELSE IF Head(t) = "\\" THEN <<t[2]>> \o JsonUnescape(SubSeq(t, 3, Len(t)))
    ELSE <<Head(t)>> \o JsonUnescape(Tail(t))

ParseJsonString(t) == JsonUnescape(SubSeq(t, 2, Len(t) - 1))

\* The decimal digits of a natural number.
RECURSIVE NumberDigits(_)
NumberDigits(n) ==
    IF n < 10 THEN <<Digits[n + 1]>>
    ELSE Append(NumberDigits(n \div 10), Digits[(n % 10) + 1])

\* JSON.stringify of a number of seconds held as c centiseconds (line 2226):
\* the shortest decimal text, 1.5 for 150 and 7 for 700.
JsonNumber(c) ==
    LET abs == IF c < 0 THEN 0 - c ELSE c
        fraction == IF abs % 100 = 0 THEN <<>>
                    ELSE IF abs % 10 = 0 THEN <<".", Digits[((abs % 100) \div 10) + 1]>>
                    ELSE <<".">> \o Pad2(abs % 100)
    IN  (IF c < 0 THEN <<"-">> ELSE <<>>) \o NumberDigits(abs \div 100) \o fraction

\* JSON.parse of the text of a number (line 2245), in centiseconds.
ParseJsonNumber(t) ==
    LET negative == t[1] = "-"
        body == IF negative THEN Tail(t) ELSE t
        whole == DigitRun(body, 1)
        rest == SubSeq(body, Len(whole) + 2, Len(body))
        hundredths == IF Len(rest) = 0 THEN 0
                      ELSE IF Len(rest) = 1 THEN 10 * DigitValue(rest[1])
                      ELSE ParseInt(SubSeq(rest, 1, 2))
        abs == 100 * ParseInt(whole) + hundredths
    IN  IF negative THEN 0 - abs ELSE abs

\* exportPlaylist with the duration of the tracks left out of the file.
exportPlaylistNoDuration(p) ==
    [songs |-> [i \in 1..Len(p.songs) |->
                   [name |-> JsonString(p.songs[i].name),
                    lyrics |-> [j \in 1..Len(p.songs[i].lyrics) |->
                                   [time |-> JsonNumber(p.songs[i].lyrics[j].time),
                                    text |-> JsonString(p.songs[i].lyrics[j].text)]]]]]

\* Lines 2216-2226: the file exportPlaylist writes for a catalog that is not
\* empty: name, lyrics and duration of every track, as JSON text.
exportPlaylist(p) ==
    [songs |-> [i \in 1..Len(p.songs) |->
                   [name |-> JsonString(p.songs[i].name),
                    lyrics |-> [j \in 1..Len(p.songs[i].lyrics) |->
                                   [time |-> JsonNumber(p.songs[i].lyrics[j].time),
                                    text |-> JsonString(p.songs[i].lyrics[j].text)]],
                    duration |-> JsonNumber(p.songs[i].duration)]]]

\* Line 2245: JSON.parse of an exported file; songData.duration || 0 (line
\* 2268) is 0 for an entry without a duration.
JsonParse(file) ==
    [songsIsArray |-> TRUE,
     songs |-> [i \in 1..Len(file.songs) |->
                   ImportEntry(ParseJsonString(file.songs[i].name), TRUE,
                               [j \in 1..Len(file.songs[i].lyrics) |->
                                   [time |-> ParseJsonNumber(file.songs[i].lyrics[j].time),
                                    text |-> ParseJsonString(file.songs[i].lyrics[j].text)]],
                               IF "duration" \in DOMAIN file.songs[i]
                               THEN ParseJsonNumber(file.songs[i].duration) ELSE 0)]]

\* Lines 2247-2277: the notification importPlaylist ends with.
importNotification(data) ==
    IF ~data.songsIsArray THEN "error"
    ELSE IF Len(SelectSeq(data.songs, ValidEntry)) = 0 THEN "error"
    ELSE "success"

\* The playlist files the user picks: one whose entries are a track with lines
\* out of order, a track with an empty lyrics array, an entry without a name,
\* an entry whose lyrics are no array and a track with a line of negative time;
\* one whose only entry has a name and an empty lyrics array; one without a
\* songs array; one whose entries have no name or no lyrics array; one with a
\* single well-formed track.
PlaylistFiles ==
    << [songsIsArray |-> TRUE,
        songs |-> << ImportEntry(<<"e">>, TRUE,
                                 <<[time |-> 3, text |-> <<"b">>],
                                   [time |-> 1, text |-> <<"a">>]>>, 0),
                     ImportEntry(<<"x">>, TRUE, <<>>, 500),
                     ImportEntry(<<>>, TRUE, <<[time |-> 0, text |-> <<"a">>]>>, 500),
                     ImportEntry(<<"y">>, FALSE, <<>>, 500),
                     ImportEntry(<<"n">>, TRUE,
                                 <<[time |-> 0 - 1, text |-> <<"a">>],
                                   [time |-> 2, text |-> <<"b">>]>>, 705) >>],
       [songsIsArray |-> TRUE, songs |-> << ImportEntry(<<"x">>, TRUE, <<>>, 0) >>],
       [songsIsArray |-> FALSE, songs |-> <<>>],
       [songsIsArray |-> TRUE,
        songs |-> << ImportEntry(<<>>, TRUE, <<>>, 0),
                     ImportEntry(<<"y">>, FALSE, <<>>, 500) >>],
       [songsIsArray |-> TRUE,
        songs |-> << ImportEntry(<<"a">>, TRUE,
                                 <<[time |-> 0, text |-> <<"a">>],
                                   [time |-> 150, text |-> <<"b">>]>>, 650) >>] >>

\* The lyric files of this model: the file ".lrc", whose track has the empty
\* name, a file with a quote in its name and a file with a plain name.
ImportLrcFiles == {SortFile(<<>>), SortFile(<<"q", "\"">>), SortFile(<<"b">>)}

\* reader.onload of importPlaylist for the k-th playlist file; b tells whether
\* the notification is an error.
PlaylistFileRead(k) ==
    /\ SetPlayer(importPlaylist(Player, PlaylistFiles[k]))
    /\ lastOp' = Op("importPlaylist", k,
                    IF importNotification(PlaylistFiles[k]) = "error" THEN 1 ELSE 0)
    /\ UNCHANGED <<parserVars, modeVars>>

\* The export button on a catalog that is not empty, and the import of the file
\* it wrote.
ExportedFileRead ==
    /\ Len(songs) > 0
    /\ SetPlayer(importPlaylist(Player, JsonParse(exportPlaylist(Player))))
    /\ lastOp' = Op("exportImport", 0, 0)
    /\ UNCHANGED <<parserVars, modeVars>>

NextImport ==
    \/ \E file \in ImportLrcFiles : LrcFileLoaded(file)
    \/ \E k \in 1..Len(PlaylistFiles) : PlaylistFileRead(k)
    \/ ExportedFileRead
    \/ \E index \in ValidIndices : RemoveSong(index)
    \/ \E index \in ValidIndices : SwitchToSong(index)

SpecImport == Init /\ [][NextImport]_vars

\* What the import is said to keep: an entry with a name and a lyrics array
\* that is not empty, and of its lines those with a time that is a finite
\* number >= 0 and a text that is a string (the times of the model are finite
\* numbers and its texts are strings), in ascending order of time.
SaidValidEntry(e) == Len(e.name) > 0 /\ e.lyricsIsArray /\ Len(e.lyrics) > 0

SaidValidLine(line) == line.time >= 0

SaidLyrics(e) == SortByTime(SelectSeq(e.lyrics, SaidValidLine))

\* C25: after importPlaylist has accepted a playlist file, the tracks of the
\* catalog are exactly the entries of the file that have a name and a lyrics
\* array that is not empty, and the lines of each track are the entry's lines
\* of a valid time, in ascending order of time.
C25_ImportKeepsValidEntries ==
    (lastOp.op = "importPlaylist" /\ lastOp.b = 0) =>
        LET said == SelectSeq(PlaylistFiles[lastOp.a].songs, SaidValidEntry) IN
        /\ Len(songs) = Len(said)
        /\ \A i \in 1..Len(songs) :
               i <= Len(said) => /\ songs[i].name = said[i].name
                                 /\ songs[i].lyrics = SaidLyrics(said[i])

\* C26: reading a playlist file without an entry that has a name and a lyrics
\* array that is not empty ends with an error notification and leaves the
\* catalog and currentSongIndex as they were.
C26_InvalidImportChangesNothing ==
    [][\A k \in 1..Len(PlaylistFiles) :
           (PlaylistFileRead(k)
            /\ Len(SelectSeq(PlaylistFiles[k].songs, SaidValidEntry)) = 0)
           => /\ lastOp'.b = 1
              /\ songs' = songs
              /\ currentSongIndex' = currentSongIndex]_vars

\* The name, the number of lines and the duration of a track.
Summary(song) == <<song.name, Len(song.lyrics), song.duration>>

Summaries(catalog) == {Summary(catalog[i]) : i \in 1..Len(catalog)}

IsLyricFile(file) ==
    LET lower == ToLowerCase(file.name)
        end == SubSeq(lower, Len(lower) - 3, Len(lower))
    IN  Len(lower) >= 4 /\ end \in {LrcExt, <<".", "t", "x", "t">>}

\* The files of a batch: two lyric files whose names are out of order, a lyric
\* file that parseLrc rejects, and an audio file.
BatchFiles ==
    { SortFile(<<"2">>), [name |-> <<"1", ".", "T", "X", "T">>, content |-> Line(0, "a")],
      [name |-> <<"d">> \o LrcExt, content |-> BadLine],
      [name |-> <<"x", ".", "m", "p", "3">>, content |-> <<>>] }

\* Lines 781-832: loadLrcFiles(files): a reader for every lyric file and one
\* timer of files.length * 20 ms for the sort.
loadLrcFiles(p, files) ==
    [p EXCEPT !.readers = @ \cup {file \in files : IsLyricFile(file)},
              !.timers.sort = @ + 1]

\* Lines 788-811: reader.onload of a file of the batch.
readerLoaded(p, file) == lrcFileLoaded([p EXCEPT !.readers = @ \ {file}], file)

\* Lines 812-818: reader.onerror of a file of the batch: a notification.
readerFailed(p, file) == [p EXCEPT !.readers = @ \ {file}]

\* Lines 826-830: the timer of loadLrcFiles.
sortTimerFired(p) == sortPlaylist([p EXCEPT !.timers.sort = @ - 1])

\* Files are dropped on the page or picked (lines 528, 549 and 2935), one
\* batch at a time.
LoadLrcFiles(files) ==
    /\ readers = {}
    /\ timers.sort = 0
    /\ Len(songs) < MaxSongs
    /\ SetPlayer(loadLrcFiles(Player, files))
    /\ lastOp' = Op("loadLrcFiles", Cardinality(files), 0)
    /\ UNCHANGED <<parserVars, modeVars>>

\* b tells whether the file gave a track.
ReaderLoaded(file) ==
    /\ file \in readers
    /\ SetPlayer(readerLoaded(Player, file))
    /\ lastOp' = Op("readerLoaded", 0,
                    IF Len(readerLoaded(Player, file).songs) > Len(songs) THEN 1 ELSE 0)
    /\ UNCHANGED <<parserVars, modeVars>>

ReaderFailed(file) ==
    /\ file \in readers
    /\ SetPlayer(readerFailed(Player, file))
    /\ lastOp' = Op("readerFailed", 0, 0)
    /\ UNCHANGED <<parserVars, modeVars>>

\* a is the number of readers of the batch that have not fired.
SortTimerFired ==
    /\ timers.sort > 0
    /\ SetPlayer(sortTimerFired(Player))
    /\ lastOp' = Op("sortTimer", Cardinality(readers), 0)
    /\ UNCHANGED <<parserVars, modeVars>>

NextBatch ==
    \/ \E files \in SUBSET BatchFiles : LoadLrcFiles(files)
    \/ \E file \in BatchFiles : ReaderLoaded(file)
    \/ \E file \in BatchFiles : ReaderFailed(file)
    \/ SortTimerFired
    \/ \E index \in ValidIndices : RemoveSong(index)

SpecBatch == Init /\ [][NextBatch]_vars

\* A reader that fails, or whose file parseLrc rejects, takes no other reader
\* of the batch with it and leaves the tracks added so far.
FailureIsolated ==
    \A file \in BatchFiles :
        ((ReaderFailed(file) \/ ReaderLoaded(file)) /\ lastOp'.b = 0)
        => /\ readers' = readers \ {file}
           /\ songs' = songs

\* A reader that has not fired adds the track of its file when it loads a text
\* that parses under a name the catalog does not hold.
RemainingAdded ==
    \A file \in BatchFiles :
        (ReaderLoaded(file)
         /\ parseLrc(StringValue(file.content)).status = "returned"
         /\ ~\E i \in 1..Len(songs) : songs[i].name = StripExtension(file.name))
        => Len(songs') = Len(songs) + 1

\* The batch is sorted once, by a timer that fires when no reader of the batch
\* is left.
SortedOnceAfterReads ==
    /\ timers.sort <= 1
    /\ SortTimerFired => (readers = {} /\ timers'.sort = 0)

\* C28: in loadLrcFiles a read or parse failure of one file does not keep the
\* other files from being added, and the playlist is sorted once, after every
\* reader of the batch has fired.
C28_BatchIsolatedAndSortedLast ==
    [][FailureIsolated /\ RemainingAdded /\ SortedOnceAfterReads]_vars

(***************************************************************************)
(* The play modes: setPlayMode, switchPlayMode and getNextSongIndex, on a  *)
(* catalog whose tracks are clicked and removed.                           *)
(***************************************************************************)

\* Line 1855: the draws of Math.random the loop of the random mode makes at
\* most.
MaxAttempts == 20

MaxModeSongs == 2  \* tracks in the catalog the play modes run on

PlayModes == <<"list", "loop", "single", "random">>

\* Lines 1794-1817: setPlayMode(mode); playHistory stays as it is.
setPlayMode(p, mode) == [p EXCEPT !.playMode = mode]

\* Lines 1822-1828: switchPlayMode(): the mode after this.playMode in the list
\* (indexOf is -1 for a mode that is not in it).
switchPlayMode(p) ==
    LET currentIndex == IF \E k \in 1..Len(PlayModes) : PlayModes[k] = p.playMode
                        THEN (CHOOSE k \in 1..Len(PlayModes) : PlayModes[k] = p.playMode) - 1
                        ELSE -1
        nextIndex == (currentIndex + 1) % Len(PlayModes)
    IN  setPlayMode(p, PlayModes[nextIndex + 1])

\* Lines 1844-1846: the history the loop of the random mode looks at.
HistoryAtDraw(p) ==
    IF Len(p.playHistory) >= Len(p.songs) THEN <<>> ELSE p.playHistory

\* Lines 1853-1856: the loop goes on after a draw that is the current index or
\* is in the history, while fewer than MaxAttempts draws have been made.
Refused(p, nextIndex) ==
    nextIndex = p.currentSongIndex \/ Includes(HistoryAtDraw(p), nextIndex)

\* Lines 1850-1856: the loop ends after `attempts` draws with the draw
\* nextIndex: Math.floor(Math.random() * length) is any index of the catalog,
\* every draw before the last was refused, and the last is not refused unless
\* it is the draw number MaxAttempts.
LoopEnds(p, attempts, nextIndex) ==
    /\ nextIndex \in 0..(Len(p.songs) - 1)
    /\ attempts \in 1..MaxAttempts
    /\ attempts > 1 => \E refused \in 0..(Len(p.songs) - 1) : Refused(p, refused)
    /\ attempts < MaxAttempts => ~Refused(p, nextIndex)

\* getNextSongIndex whose list mode wraps to the first track after the last.
getNextSongIndexListWraps(p, nextIndex) ==
    IF Len(p.songs) = 0 THEN [index |-> -1, player |-> p]
    ELSE IF p.playMode = "single" THEN [index |-> p.currentSongIndex, player |-> p]
    ELSE IF p.playMode = "random"
    THEN [index |-> nextIndex,
          player |-> [p EXCEPT !.playHistory = Append(HistoryAtDraw(p), nextIndex)]]
    ELSE [index |-> (p.currentSongIndex + 1) % Len(p.songs), player |-> p]

\* Lines 1830-1864: getNextSongIndex(), nextIndex being the draw the loop of
\* the random mode ends with: the index returned and the player after the call.
getNextSongIndex(p, nextIndex) ==
    IF Len(p.songs) = 0 THEN [index |-> -1, player |-> p]
    ELSE IF p.playMode = "list"
    THEN [index |-> IF p.currentSongIndex < Len(p.songs) - 1
                    THEN p.currentSongIndex + 1 ELSE -1,
          player |-> p]
    ELSE IF p.playMode = "single" THEN [index |-> p.currentSongIndex, player |-> p]
    ELSE IF p.playMode = "random"
    THEN [index |-> nextIndex,
          player |-> [p EXCEPT !.playHistory = Append(HistoryAtDraw(p), nextIndex)]]
    ELSE [index |-> (p.currentSongIndex + 1) % Len(p.songs), player |-> p]

\* The names of the tracks of the catalog the play modes run on.
NextNames == SubSeq(<<<<"a">>, <<"b">>, <<"c">>, <<"d">>>>, 1, MaxModeSongs)

InitNext ==
    /\ PlayerIs(LoadedPlayer(ConstructedPlayer, NextNames))
    /\ ParserIdle
    /\ ModesIdle
    /\ lastOp = Op("lrcFileLoaded", 0, 0)

\* A click on a play mode button (line 622).
SetPlayMode(mode) ==
    /\ SetPlayer(setPlayMode(Player, mode))
    /\ lastOp' = Op("setPlayMode", 0, 0)
    /\ UNCHANGED <<parserVars, modeVars>>

\* The key of line 756.
SwitchPlayMode ==
    /\ SetPlayer(switchPlayMode(Player))
    /\ lastOp' = Op("switchPlayMode", 0, 0)
    /\ UNCHANGED <<parserVars, modeVars>>

\* getNextSongIndex() is called (line 1422); in the random mode the loop ends
\* after `attempts` draws with nextIndex; b tells whether the loop made all
\* its MaxAttempts draws.
GetNextSongIndex(attempts, nextIndex) ==
    /\ IF Len(songs) > 0 /\ playMode = "random"
       THEN LoopEnds(Player, attempts, nextIndex)
       ELSE attempts = 0 /\ nextIndex = 0
    /\ SetPlayer(getNextSongIndex(Player, nextIndex).player)
    /\ callResult' = [fn |-> "getNextSongIndex",
                      value |-> <<getNextSongIndex(Player, nextIndex).index>>]
    /\ lastOp' = Op("getNextSongIndex", 0, IF attempts = MaxAttempts THEN 1 ELSE 0)
    /\ UNCHANGED <<parserVars, modeSong, modeResult, callArgs, scanWork>>

NextNext ==
    \/ \E mode \in {PlayModes[k] : k \in 1..Len(PlayModes)} : SetPlayMode(mode)
    \/ SwitchPlayMode
    \/ \E index \in ValidIndices : SwitchToSong(index)
    \/ \E index \in ValidIndices : RemoveSong(index)
    \/ \E attempts \in 0..MaxAttempts : \E nextIndex \in 0..MaxModeSongs :
           GetNextSongIndex(attempts, nextIndex)

SpecNext == InitNext /\ [][NextNext]_vars

\* getNextSongIndex has just returned.
NextReturned == lastOp'.op = "getNextSongIndex"

\* C29: getNextSongIndex returns -1 for an empty catalog; in the list mode the
\* index after the current one, or -1 when the current track is the last; in
\* the loop mode (current + 1) mod n; in the single mode the current index.
C29_NextIndexByMode ==
    [][NextReturned =>
           LET n == Len(songs)
               returned == callResult'.value[1]
           IN  /\ n = 0 => returned = -1
               /\ (n > 0 /\ playMode = "list") =>
                      returned = IF currentSongIndex = n - 1 THEN -1
                                 ELSE currentSongIndex + 1
               /\ (n > 0 /\ playMode = "loop") =>
                      returned = (currentSongIndex + 1) % n
               /\ (n > 0 /\ playMode = "single") => returned = currentSongIndex]_vars

\* getNextSongIndex has returned -1 in the list mode on the last track of a
\* catalog of two or more tracks.
C29_Witness ==
    /\ lastOp.op = "getNextSongIndex"
    /\ playMode = "list"
    /\ Len(songs) >= 2
    /\ currentSongIndex = Len(songs) - 1
    /\ callResult.value = <<-1>>

\* C30: in the random mode getNextSongIndex returns an index of the catalog
\* that is not in playHistory (emptied first when it holds as many entries as
\* there are tracks) and appends it to playHistory, which so holds no index
\* twice.
C30_RandomAvoidsHistory ==
    [][(NextReturned /\ playMode = "random" /\ Len(songs) > 0) =>
           LET returned == callResult'.value[1] IN
           /\ returned \in 0..(Len(songs) - 1)
           /\ ~Includes(HistoryAtDraw(Player), returned)
           /\ playHistory' = Append(HistoryAtDraw(Player), returned)
           /\ \A i, j \in 1..Len(playHistory') :
                  playHistory'[i] = playHistory'[j] => i = j]_vars

\* C40: findMatchingSong never returns a track of another name when the name
\* of the track and the name of the file both normalize to the empty string.
C40_EmptyNormalizedNeverMatched ==
    (Called("findMatchingSong") /\ Matched("findMatchingSong") > 0) =>
        ~(/\ songs[Matched("findMatchingSong")].name # fileName
          /\ normalizeForMatching(songs[Matched("findMatchingSong")].name) = <<>>
          /\ normalizeForMatching(fileName) = <<>>)

(***************************************************************************)
(* calculateMatchScore on its own: pairs of names with and without number  *)
(* prefixes, separators, capitals, extensions and a second number.         *)
(***************************************************************************)
ScoreNames ==
    { <<"1", "-", "2", "a">>, <<"1", "-", "3", "a">>, <<"1", "-", "a", "b">>,
      <<"1", "a", "b">>, <<"2", "a", "b">>, <<"a", "b", "c">>, <<"A", "_", "B", "C">>,
      <<"a", "b", "c", "d">>, <<"a">>, <<"1">>, <<"2">>, <<"a", "b", ".", "x">> }

InitScore ==
    /\ PlayerIs(ConstructedPlayer)
    /\ ParserIdle
    /\ modeSong = NullAudio
    /\ modeResult = NoModeCall
    /\ callArgs \in ScoreNames \X ScoreNames
    /\ callResult = NoModeCall
    /\ scanWork = NoScan
    /\ lastOp = Op("constructor", 0, 0)

CallCalculateMatchScore ==
    FunctionCall("calculateMatchScore", calculateMatchScore(callArgs[1], callArgs[2]))

CallNormalizeForMatching ==
    FunctionCall("normalizeForMatching", normalizeForMatching(callArgs[1]))

NextScore == CallCalculateMatchScore \/ CallNormalizeForMatching

SpecScore == InitScore /\ [][NextScore]_vars

\* The three scores the maximum is said to be taken of, for the names s and t
\* with the normalized forms ns and nt.
SaidScores(s, t, ns, nt) ==
    (IF ns = nt /\ Len(ns) > 2 THEN <<Frac(95, 100)>> ELSE <<>>)
    \o <<calculateSimilarity(ns, nt)>>
    \o (IF Len(DigitRun(s, 1)) > 0 /\ DigitRun(s, 1) = DigitRun(t, 1)
        THEN <<FracTimes(calculateSimilarity(StripNumberPrefix(s), StripNumberPrefix(t)),
                         Frac(98, 100))>>
        ELSE <<>>)

\* The score said for the names s and t: the maximum, times 0.8 when the
\* lengths of the normalized forms are in a ratio below 0.5.
SaidScore(s, t) ==
    LET ns == normalizeForMatching(s)
        nt == normalizeForMatching(t)
        shorter == Min(Len(ns), Len(nt))
        longer == IF Len(ns) > Len(nt) THEN Len(ns) ELSE Len(nt)
    IN  FracTimes(FracMax(SaidScores(s, t, ns, nt)),
                  IF longer > 0 /\ 2 * shorter < longer THEN Frac(8, 10) ELSE Frac(1, 1))

\* C32: for names whose forms without extension differ, calculateMatchScore is
\* the maximum of 0.95 (normalized forms equal and longer than 2), the
\* similarity of the normalized forms and 0.98 times the similarity of the
\* names without their number prefix (both names having the same number
\* prefix), times 0.8 when min(len)/max(len) of the normalized forms is below
\* 0.5; it lies in [0, 1].
C32_ScoreIsPenalizedMaximum ==
    (Called("calculateMatchScore")
     /\ StripExtension(callArgs[1]) # StripExtension(callArgs[2])) =>
        /\ FracEqual(callResult.value[1], SaidScore(callArgs[1], callArgs[2]))
        /\ ~FracLess(callResult.value[1], Frac(0, 1))
        /\ ~FracLess(Frac(1, 1), callResult.value[1])

(***************************************************************************)
(* The work of the cursor: one track, queries at times that do not         *)
(* decrease, and seeks back that start a new run of queries.               *)
(***************************************************************************)
MaxQueries == 4    \* queries of a forward run

\* setCurrentTime(t) at a time that is not before the last one the cursor saw
\* (lines 1678-1689, as animate and timeupdate produce them in playback).
ForwardQuery(t) ==
    /\ currentSongIndex >= 0
    /\ t >= lastLyricSearchTime
    /\ scanWork.queries < MaxQueries
    /\ SetPlayer(setCurrentTime(Player, t))
    /\ scanWork' = [queries |-> scanWork.queries + 1,
                    iterations |-> scanWork.iterations
                                       + scanIterations([Player EXCEPT !.currentTime = t])]
    /\ lastOp' = Op("forwardQuery", t, 0)
    /\ UNCHANGED <<parserVars, modeSong, modeResult, callArgs, callResult>>

\* A seek to a time before the last one the cursor saw: a new run starts.
BackwardSeek(t) ==
    /\ currentSongIndex >= 0
    /\ t < lastLyricSearchTime
    /\ SetPlayer(setCurrentTime(Player, t))
    /\ scanWork' = [queries |-> 1,
                    iterations |-> scanIterations([Player EXCEPT !.currentTime = t])]
    /\ lastOp' = Op("backwardSeek", t, 0)
    /\ UNCHANGED <<parserVars, modeSong, modeResult, callArgs, callResult>>

NextScan ==
    \/ \E t \in 0..MaxTime : ForwardQuery(t)
    \/ \E t \in 0..MaxTime : BackwardSeek(t)

SpecScan == InitCursor /\ [][NextScan]_vars

\* C33: over queries at times that do not decrease on one track, the scan
\* start lastLyricSearchIndex never decreases, and the loop iterations of all
\* the queries of the run are at most the number of lines plus the number of
\* queries.
C33_ForwardScanLinear ==
    [][lastOp'.op = "forwardQuery" =>
           /\ lastLyricSearchIndex' >= lastLyricSearchIndex
           /\ scanWork'.iterations <= Len(CurrentLyrics) + scanWork'.queries]_vars

\* A run of three queries or more has walked a timeline of three lines to its
\* last line with more iterations than lines.
C33_Witness ==
    /\ lastOp.op = "forwardQuery"
    /\ Len(CurrentLyrics) = 3
    /\ scanWork.queries >= 3
    /\ lastLyricSearchIndex = 2
    /\ scanWork.iterations > 3

(***************************************************************************)
(* C35, C38, C39: invariants of the playback model.                        *)
(***************************************************************************)

\* The track at currentSongIndex.
CurrentTrack == songs[currentSongIndex + 1]

\* C35: whenever a track is current, audioMode is true exactly when the
\* effective mode of that track is 'audio' or 'sync': also after changeSongMode
\* on the current track while the player is paused, and after a change to an
\* audio mode on a track whose audio element has not been created.
C35_AudioModeMatchesEffectiveMode ==
    HasCurrentSong(Player) =>
        (audioMode <=> getEffectiveMode(CurrentTrack) \in {"audio", "sync"})

\* C38: at most one callback of the animation loop is pending at any time:
\* play() while the player plays starts no second loop, and once the player is
\* paused no callback is left that the next play() revives.
C38_OneAnimationLoop ==
    /\ frames <= 1
    /\ ~isPlaying => frames = 0

\* C39: isPlaying is true only while currentSongIndex is an index of songs:
\* after the current track is removed, after the playlist is cleared and after
\* a timer calls play() with no track selected the player does not play.
C39_PlayingHasCurrentSong == isPlaying => HasCurrentSong(Player)

\* A timer calls play() with no track selected, and the current track is removed
\* or the playlist cleared while the player plays.
C39_Witness ==
    /\ lastOp.op = "playTimer"
    /\ ~HasCurrentSong(Player)
    /\ ~isPlaying

(***************************************************************************)
(* C34: the free-running clock and the playback speed. A track of lyrics   *)
(* plays; the user pauses, plays, seeks and changes the speed, and the     *)
(* animation frames run as time passes.                                    *)
(***************************************************************************)
MaxClock == 4      \* the clock is followed up to this time

\* The speeds of the speed buttons the model follows.
Speeds == {1, 2}

\* The player is paused by pause() and no seek has moved the time since: the
\* last handler is the pause, or a speed change that followed it.
PausedUnsought ==
    /\ ~isPlaying
    /\ \/ lastOp.op = "togglePlay" /\ lastOp.a = 1
       \/ lastOp.op = "setPlaybackSpeed" /\ lastOp.b = 1

\* Lines 595-600: a speed button: setPlaybackSpeed(speed), at a time the
\* division is exact for; b tells whether the player is paused with no seek
\* since the pause.
SetPlaybackSpeed(speed) ==
    /\ speed # playbackSpeed
    /\ currentTime % speed = 0
    /\ Does(setPlaybackSpeed(Player, speed), "setPlaybackSpeed", speed,
            IF PausedUnsought THEN 1 ELSE 0)

\* A click on the progress bar at a time that the division by the speed is exact
\* for.
SpeedSeek(t) ==
    /\ t % playbackSpeed = 0
    /\ SeekTo(t)

\* The pending frame of the loop runs animate(), passed units of time after the
\* clock was last read.
SpeedFrame(passed, update) ==
    /\ animationId
    /\ (elapsed + passed) * playbackSpeed <= MaxClock
    /\ Does(ClockKept(animate([Player EXCEPT !.frames = @ - 1,
                                             !.animationId = FALSE,
                                             !.elapsed = @ + passed],
                              update)),
            "animate", 0, passed)

\* The play button, while the time play() starts the clock at is one the model
\* follows.
SpeedTogglePlay(update) ==
    /\ isPlaying \/ pausedTime * playbackSpeed <= MaxClock
    /\ TogglePlay(update)

NextSpeed ==
    \/ \E update \in BOOLEAN : SpeedTogglePlay(update)
    \/ \E speed \in Speeds : SetPlaybackSpeed(speed)
    \/ \E t \in 0..MaxClock : SpeedSeek(t)
    \/ \E passed \in 0..1 : \E update \in BOOLEAN : SpeedFrame(passed, update)

SpecSpeed == InitPlay /\ [][NextSpeed]_vars

\* pause() followed by play() with no seek in between: the time is the one the
\* player was paused at (a track that has played to its end starts again).
ResumeStep34 ==
    (/\ PausedUnsought
     /\ currentTime < CurrentTrack.duration
     /\ lastOp'.op = "togglePlay") => currentTime' = currentTime

\* setPlaybackSpeed while the player plays: the time is not changed, and the
\* clock reads that time at the new speed.
SpeedStep34 ==
    (isPlaying /\ lastOp'.op = "setPlaybackSpeed") =>
        /\ currentTime' = currentTime
        /\ elapsed' * playbackSpeed' = currentTime

\* C34: in lyrics-only mode, pause() followed by play() with no seek in between
\* resumes at the time at which the player was paused, at every playback speed,
\* and setPlaybackSpeed while the player plays does not change currentTime.
C34_SpeedKeepsTime == [][ResumeStep34 /\ SpeedStep34]_vars

(***************************************************************************)
(* C31, C37: the end of a track. Two tracks loaded from lyric files, an    *)
(* audio file for the first; the user plays, pauses, selects tracks and    *)
(* play modes, and the browser runs the timers, the animation frames and   *)
(* the events of the audio elements, the ended event among them.           *)
(***************************************************************************)

\* Lines 1417-1445: onSongEnded(), nextIndex the draw of the random mode. Line
\* 1419 reads the name of the current track and throws when there is none.
onSongEnded(p, nextIndex) ==
    LET q == pause(p) IN
    IF ~HasCurrentSong(q) THEN q
    ELSE LET next == getNextSongIndex(q, nextIndex) IN
         IF next.index >= 0
         THEN [next.player EXCEPT !.timers.ended = Append(@, next.index)]
         ELSE next.player

\* The callback of the timer of onSongEnded with a mode other than 'single'
\* taken for 'single'.
endedTimerFiredAlwaysReplays(p, update) ==
    LET nextIndex == Head(p.timers.ended)
        q == [p EXCEPT !.timers.ended = Tail(@)]
    IN  IF nextIndex = q.currentSongIndex
        THEN play(setCurrentTime(q, 0), update)
        ELSE WithPlayTimer(switchToSong(q, nextIndex))

\* Lines 1426-1438: the callback of the timer of onSongEnded that was set first.
endedTimerFired(p, update) ==
    LET nextIndex == Head(p.timers.ended)
        q == [p EXCEPT !.timers.ended = Tail(@)]
    IN  IF nextIndex = q.currentSongIndex /\ q.playMode = "single"
        THEN play(setCurrentTime(q, 0), update)
        ELSE WithPlayTimer(switchToSong(q, nextIndex))

\* Lines 1373-1377: the element of the track at position k has played to its
\* end, the duration of its track, and its ended listener runs.
audioEnded(p, k, nextIndex) ==
    LET song == p.songs[k]
        q == [p EXCEPT !.songs[k] =
                           WithField(song, "audioElement",
                                     [AudioElementOf(song) EXCEPT !.playing = FALSE,
                                                                  !.pos = song.duration])]
    IN  IF q.audioElement = ElementOf(song.name) THEN onSongEnded(q, nextIndex) ELSE q

\* The pending timers and frames stay within the bounds of the model.
EndedBounded(p) ==
    /\ p.frames <= MaxFrames
    /\ p.timers.play <= MaxTimers
    /\ Len(p.timers.ended) <= MaxTimers

\* The handler result p becomes the state, the handler is recorded.
EndedDoes(p, name, a, b) ==
    /\ EndedBounded(p)
    /\ SetPlayer(p)
    /\ lastOp' = Op(name, a, b)
    /\ UNCHANGED <<parserVars, modeVars>>

\* The ended event of the element of the track at position k; b tells whether
\* the element is this.audioElement, so that onSongEnded() runs.
AudioEnded(k, attempts, nextIndex) ==
    /\ HasAudioElement(songs[k])
    /\ AudioElementOf(songs[k]).playing
    /\ IF playMode = "random"
       THEN LoopEnds(Player, attempts, nextIndex)
       ELSE attempts = 1 /\ nextIndex = 0
    /\ EndedDoes(audioEnded(Player, k, nextIndex), "ended", k - 1,
                 IF audioElement = ElementOf(songs[k].name) THEN 1 ELSE 0)

\* The timer of 500 ms of onSongEnded fires; a is the index it holds.
EndedTimerFired(update) ==
    /\ Len(timers.ended) > 0
    /\ EndedDoes(endedTimerFired(Player, update), "endedTimer", Head(timers.ended), 0)

\* A timer of 100 ms that calls play() fires.
EndedPlayTimerFired(update) ==
    /\ timers.play > 0
    /\ EndedDoes(play([Player EXCEPT !.timers.play = @ - 1], update), "playTimer", 0, 0)

\* The play button or the space key.
EndedTogglePlay(update) ==
    EndedDoes(togglePlay(Player, update), "togglePlay", IF isPlaying THEN 1 ELSE 0, 0)

\* loadAudioFiles: an audio file that matches the track at position k.
EndedAudioFileMatched(k) ==
    /\ songs[k].name \in AudioNames
    /\ ~HasAudioFile(songs[k])
    /\ EndedDoes(audioFileMatched(Player, k), "loadAudioFiles", k - 1, 0)

\* The element of the track at position k has loaded (loadedmetadata, canplay).
EndedAudioLoaded(k, update) ==
    /\ HasAudioElement(songs[k])
    /\ ~AudioElementOf(songs[k]).ready
    /\ EndedDoes(audioLoaded(Player, k, update), "canplay", k - 1, 0)

\* A pending animation frame runs animate(): the frame of animationId (ofId) or
\* another one, with no time passed since the clock was last read, or (atEnd)
\* when the clock has reached the duration of the current track.
EndedFrame(ofId, atEnd, update) ==
    /\ IF ofId THEN animationId ELSE frames > (IF animationId THEN 1 ELSE 0)
    /\ atEnd => HasCurrentSong(Player) /\ elapsed < CurrentTrack.duration
    /\ EndedDoes(ClockKept(animate([Player EXCEPT
                                       !.frames = @ - 1,
                                       !.animationId = IF ofId THEN FALSE ELSE @,
                                       !.elapsed = IF atEnd THEN CurrentTrack.duration
                                                   ELSE @],
                                   update)),
                 "animate", IF audioMode THEN 1 ELSE 0, IF atEnd THEN 1 ELSE 0)

\* The steps of the browser: the timers, the media events, the frames.
EndedTimerSteps == \E update \in BOOLEAN : EndedTimerFired(update)

PlayTimerSteps == \E update \in BOOLEAN : EndedPlayTimerFired(update)

LoadedSteps == \E k \in 1..Len(songs) : \E update \in BOOLEAN : EndedAudioLoaded(k, update)

EndedSteps ==
    \E k \in 1..Len(songs) : \E attempts \in {1, 2, MaxAttempts} :
        \E nextIndex \in ValidIndices : AudioEnded(k, attempts, nextIndex)

FrameSteps == \E ofId, atEnd, update \in BOOLEAN : EndedFrame(ofId, atEnd, update)

NextEnded ==
    \/ \E update \in BOOLEAN : EndedTogglePlay(update)
    \/ \E index \in ValidIndices : SwitchToSong(index)
    \/ \E mode \in {PlayModes[k] : k \in 1..Len(PlayModes)} : SetPlayMode(mode)
    \/ \E k \in 1..Len(songs) : EndedAudioFileMatched(k)
    \/ EndedTimerSteps
    \/ PlayTimerSteps
    \/ LoadedSteps
    \/ EndedSteps
    \/ FrameSteps

SpecEnded == InitPlay /\ [][NextEnded]_vars

\* Every pending timer fires, every pending frame runs, and an element that
\* loads or plays fires its events: the browser starves none of them.
SpecEndedFair ==
    /\ SpecEnded
    /\ WF_vars(EndedTimerSteps)
    /\ WF_vars(PlayTimerSteps)
    /\ WF_vars(LoadedSteps)
    /\ WF_vars(EndedSteps)
    /\ WF_vars(FrameSteps)

\* play() waits for the canplay event of the element of this.audioElement.
Waiting(p) == p.audioMode /\ GlobalOwner(p) > 0 /\ GlobalAudio(p).waiting

\* The next indices the play mode allows when the current track ends: none in
\* the list mode at the last track.
SaidNext ==
    IF playMode = "single" THEN {currentSongIndex}
    ELSE IF playMode = "list"
    THEN IF currentSongIndex < Len(songs) - 1 THEN {currentSongIndex + 1} ELSE {}
    ELSE IF playMode = "loop" THEN {(currentSongIndex + 1) % Len(songs)}
    ELSE 0..(Len(songs) - 1)

\* onSongEnded() runs: the player is paused, the track stays the current one,
\* and a timer holds the next index, when there is one.
EndedStep31 ==
    (lastOp'.op = "ended" /\ lastOp'.b = 1) =>
        /\ ~isPlaying'
        /\ currentSongIndex' = currentSongIndex
        /\ timers'.play = timers.play
        /\ IF SaidNext = {} THEN timers'.ended = timers.ended
           ELSE \E n \in SaidNext : timers'.ended = Append(timers.ended, n)

\* The timer of onSongEnded fires: in the 'single' mode with the index of the
\* current track the track is played again from 0 and no track is selected; else
\* the track of the index is selected and a timer for play() is set.
TimerStep31 ==
    lastOp'.op = "endedTimer" =>
        LET n == Head(timers.ended) IN
        IF playMode = "single" /\ n = currentSongIndex
        THEN /\ currentSongIndex' = currentSongIndex
             /\ currentTime' = 0
             /\ isPlaying' \/ Waiting(Player')
             /\ timers'.play = timers.play
        ELSE /\ currentSongIndex' = n
             /\ ~isPlaying'
             /\ timers'.play = timers.play + 1

\* The timer for play() fires: the current track plays, once its element has
\* loaded.
PlayStep31 ==
    (lastOp'.op = "playTimer" /\ HasCurrentSong(Player)) =>
        isPlaying' \/ Waiting(Player')

\* C31: when a track ends, onSongEnded pauses the player first; in the 'single'
\* mode the same track is set to time 0 and played again without a track
\* switch; in the other modes with a next index >= 0 the player switches to
\* that track and then plays it; in the 'list' mode at the last track no switch
\* happens and the player stays stopped.
C31_EndedByPlayMode == [][EndedStep31 /\ TimerStep31 /\ PlayStep31]_vars

\* The second track plays after the first has ended in the list mode: the timer
\* of onSongEnded has selected it and the timer for play() has fired.
C31_Witness ==
    /\ lastOp.op = "playTimer"
    /\ playMode = "list"
    /\ currentSongIndex = 1
    /\ isPlaying
    /\ playHistory = <<>>

\* The clock of a track that plays in the lyrics mode has reached the duration
\* of the track.
LyricsAtEnd ==
    /\ isPlaying
    /\ ~audioMode
    /\ HasCurrentSong(Player)
    /\ currentTime >= CurrentTrack.duration

\* onSongEnded() has run.
EndHandled == lastOp.op = "ended" /\ lastOp.b = 1

\* C37: in lyrics-only mode, once currentTime reaches the duration of the track
\* the playback eventually ends: onSongEnded eventually runs, as it does when
\* an audio track ends, unless the player has left that state before (the user
\* pauses, or another track is selected).
C37_LyricsPlaybackEnds == LyricsAtEnd ~> (EndHandled \/ ~LyricsAtEnd)

====
